---- MODULE Spec2Model ----
(***************************************************************************)
(* Manim Composer: the scene model (models/scene_state.py), the code       *)
(* generator (codegen/generator.py), the code parser (codegen/parser.py),  *)
(* the properties panel (controllers/properties_controller.py) and the     *)
(* window's handlers (main.py), as state machines.                         *)
(*                                                                         *)
(* Numbers are fixed point: a duration is a number of hundredths of a      *)
(* second, a canvas coordinate a number of tenths of a canvas unit, a      *)
(* parsed (manim) coordinate a number of hundredths of a manim unit.       *)
(* A text is a sequence of lines; a line is a record holding the pieces    *)
(* the parser's patterns capture, the content of a construction line being *)
(* kept as raw characters.                                                 *)
(*                                                                         *)
(* Six specifications share the variables.  SpecRT draws a scene, a text   *)
(* or a step list and applies the generators, parse_code or the step-list  *)
(* operations to it.  Spec is the window driven through the canvas, the    *)
(* list of steps and the property pages.  SpecSync is the window driven    *)
(* through the canvas, the tabs and the code editors, whose debounce timer *)
(* ends in _apply_code_to_canvas.  SpecSceneList is the window driven      *)
(* through the scene list alone, SpecScenes through the scene list and the *)
(* code editor, SpecProject through one scene, the export and the preview. *)
(* An exception ends the handler that raised it and keeps what the handler *)
(* had assigned before; the window stays open.                             *)
(***************************************************************************)
EXTENDS Integers, Sequences, FiniteSets, TLC

VARIABLES
  scenes,             \* ManimComposerWindow._scenes: [name, state, bg_color] each
  current_scene_idx,  \* ManimComposerWindow._current_scene_idx (scenes numbered from 1)
  canvas,             \* the ids of the items the QGraphicsScene holds
  selected,           \* the ids of the selected canvas items
  props,              \* PropertiesController: _current_name, _current_anim_index, _updating
  widgets,            \* widget state the handlers read: editObjName, animationsList row,
                      \* centre tab, the two code editors, the animation page's fields,
                      \* scenesList row, the ids of the canvas items that are hidden
  sync,               \* _updating_code, _code_gl_manual, _code_ce_manual, _code_sync_timer active,
                      \* and the editor whose textChanged started the pending timer (0: none)
  clipboard,          \* ManimComposerWindow._clipboard
  item_counter,       \* canvas items constructed so far (the next item's identity)
  scene_counter,      \* ManimComposerWindow._scene_counter
  files,              \* the files written: the exported script and the replay fragment
  last,               \* history: the last handler that changed the state or raised, what it
                      \* raised, and the number of property edits made
  rt                  \* a generator / parser call: its input, the text, the parse result

(***************************************************************************)
(* Bounds of the model.                                                    *)
(***************************************************************************)
MaxLen == 2        \* longest content string drawn as an input
MaxSteps == 2      \* longest step list drawn as an input / built in the UI
MaxPlaced == 1     \* objects placed on the canvas in one run
MaxItems == 3      \* canvas items built in one run
MaxEdits == 1      \* property edits made in one run

(***************************************************************************)
(* Values.                                                                 *)
(***************************************************************************)
None == "<None>"            \* Python's None, where a name may stand
NoAttr == -1                \* a TrackedObject without the attribute font_size
NoIndex == 0                \* no row / no index (rows are numbered from 1)

Quote == "\""
Newline == "\n"
Chars == {"a", Quote, ")", Newline}

RECURSIVE SeqsUpTo(_, _)
SeqsUpTo(S, n) ==
  IF n = 0 THEN {<< >>}
  ELSE LET shorter == SeqsUpTo(S, n - 1)
       IN shorter \cup {Append(s, x) : s \in {t \in shorter : Len(t) = n - 1}, x \in S}

\* f(e) with e evaluated once, however often f reads its argument: the
\* statements of a handler run one after the other, each on the state the
\* one before it left.
Bind(e, f(_)) == CHOOSE r \in {f(x) : x \in {e}} : TRUE

Abs(n) == IF n < 0 THEN -n ELSE n

Pow10(e) ==
  CASE e = 0 -> 1 [] e = 1 -> 10 [] e = 2 -> 100 [] e = 3 -> 1000
    [] e = 4 -> 10000 [] e = 5 -> 100000 [] OTHER -> 1000000

\* The integer nearest to n/d (d > 0), a tie going to the even neighbour:
\* Python's round() and the rounding of its %f / %g formats on a value the
\* binary float holds exactly.
RoundHalfEven(n, d) ==
  LET a == Abs(n)
      q == a \div d
      r == a % d
      v == IF 2 * r > d \/ (2 * r = d /\ q % 2 = 1) THEN q + 1 ELSE q
  IN IF n < 0 THEN -v ELSE v

\* str.upper() on the colour strings of the model.
Upper(c) ==
  CASE c = "#ffffff" -> "#FFFFFF"
    [] c = "#ff0000" -> "#FF0000"
    [] OTHER -> c

(***************************************************************************)
(* Numeric literals of a text: m * 10^-e, or a token that matches the      *)
(* pattern [\d.]+ without being a number ("1.2.3"), or no literal.         *)
(***************************************************************************)
Num(m, e) == [st |-> "num", m |-> m, e |-> e]
BadNum == [st |-> "bad", m |-> 0, e |-> 0]
NoNum == [st |-> "none", m |-> 0, e |-> 0]

\* float(literal) in hundredths (literals of the model have e <= 2).
Hundredths(lit) == lit.m * Pow10(2 - lit.e)

(***************************************************************************)
(* Lines.  k: which pattern's text the line is; n: the name it starts with *)
(* or targets; c: a colour, a constructor or an animation kind; r: the     *)
(* rate_func argument ("" when absent); s: the raw characters written      *)
(* between r" and ") of a construction; x, y: numeric literals; t: the     *)
(* pieces of pattern text that follow on the same line (a second statement *)
(* after a semicolon, the text of a trailing comment), each a line with no *)
(* t of its own.                                                           *)
(***************************************************************************)
Line(k, n, c, r, s, x, y) ==
  [k |-> k, n |-> n, c |-> c, r |-> r, s |-> s, x |-> x, y |-> y, t |-> << >>]

\* The line first followed by then on the same line.
With(first, then) == [first EXCEPT !.t = << then >>]

\* A line whose first character after the blanks is #, with text behind it.
CommentLine(text) == With(Line("comment", "", "", "", << >>, NoNum, NoNum), text)

OtherLine == Line("other", "", "", "", << >>, NoNum, NoNum)   \* import, def, pass, blank, comment
ClassLine(name) == Line("class", name, "", "", << >>, NoNum, NoNum)
BgGlLine(color) == Line("bg_gl", "", color, "", << >>, NoNum, NoNum)
BgCeLine(color) == Line("bg_ce", "", color, "", << >>, NoNum, NoNum)
ObjLine(name, cls, latex) == Line("obj", name, cls, "", latex, NoNum, NoNum)
ColorLine(name, color) == Line("color", name, color, "", << >>, NoNum, NoNum)
ScaleLine(name, lit) == Line("scale", name, "", "", << >>, lit, NoNum)
MoveLine(name, x, y) == Line("move", name, "", "", << >>, x, y)
AddLine(target) == Line("add", target, "", "", << >>, NoNum, NoNum)
WaitLine(lit) == Line("wait", "", "", "", << >>, lit, NoNum)
PlayLine(kind, target, run_time, rate_func) == Line("play", target, kind, rate_func, << >>, run_time, NoNum)

(***************************************************************************)
(* models/scene_state.py                                                   *)
(***************************************************************************)
\* TrackedObject declares name, obj_type, latex and color; font_size is an
\* attribute only of the instances some handler assigned it to.
TrackedObject(name, latex, color) ==
  [name |-> name, obj_type |-> "mathtex", latex |-> latex, color |-> color, font_size |-> NoAttr]

AnimationEntry(target_name, anim_type, duration, easing) ==
  [target_name |-> target_name, anim_type |-> anim_type, duration |-> duration, easing |-> easing]

\* A canvas item: its identity and its position (a MathTexItem's pixmap is not modelled).
Item(id, x, y) == [id |-> id, x |-> x, y |-> y]

\* SceneState(): _objects and _items are one sequence of entries in the
\* dicts' insertion order (both dicts always hold the same keys).
SceneState == [objects |-> << >>, animations |-> << >>, name_counters |-> 0]

IndexOf(ss, name) ==
  IF \E i \in 1..Len(ss.objects) : ss.objects[i].name = name
  THEN CHOOSE i \in 1..Len(ss.objects) : ss.objects[i].name = name
  ELSE NoIndex

object_names(ss) == [i \in 1..Len(ss.objects) |-> ss.objects[i].name]

NameSet(ss) == {ss.objects[i].name : i \in 1..Len(ss.objects)}

\* next_name("eq"): the counter after the call; the name is EqName of it.
\* next_name without the counter increment: hands out the last name again.
next_name_stale(ss) == ss

next_name(ss) == [ss EXCEPT !.name_counters = @ + 1]

EqName(count) ==
  CASE count = 1 -> "eq_1" [] count = 2 -> "eq_2" [] count = 3 -> "eq_3"
    [] count = 4 -> "eq_4" [] OTHER -> "eq_5"

\* register: a dict assignment, which keeps the place of a key already held.
register(ss, name, tracked, item) ==
  LET e == [name |-> name, tracked |-> tracked, item |-> item]
      i == IndexOf(ss, name)
  IN IF i = NoIndex
     THEN [ss EXCEPT !.objects = Append(@, e)]
     ELSE [ss EXCEPT !.objects[i] = e]

\* unregister without the filter over the animation list.
unregister_keep_steps(ss, name) ==
  [ss EXCEPT !.objects = SelectSeq(@, LAMBDA e : e.name # name)]

unregister(ss, name) ==
  [ss EXCEPT !.objects = SelectSeq(@, LAMBDA e : e.name # name),
             !.animations = SelectSeq(@, LAMBDA a : a.target_name # name)]

add_animation(ss, entry) == [ss EXCEPT !.animations = Append(@, entry)]

\* remove_animation / move_animation, rows numbered from 1.
remove_animation(ss, index) ==
  IF 1 <= index /\ index <= Len(ss.animations)
  THEN [ss EXCEPT !.animations =
          [i \in 1..(Len(@) - 1) |-> IF i < index THEN @[i] ELSE @[i + 1]]]
  ELSE ss

\* A list whose move writes the step into its new row without taking the
\* other one back.
move_animation_overwrite(ss, index, delta) ==
  LET new_index == index + delta
  IN IF 1 <= new_index /\ new_index <= Len(ss.animations) /\ index \in 1..Len(ss.animations)
     THEN [ss EXCEPT !.animations = [@ EXCEPT ![new_index] = ss.animations[index]]]
     ELSE ss

\* Only new_index is guarded: a row before the first one counts from the end
\* of the list (a negative index), and a row outside the list raises
\* IndexError while the right-hand side is read, the list untouched.
move_animation(ss, index, delta) ==
  LET n == Len(ss.animations)
      new_index == index + delta
      at == IF index < 1 THEN index + n ELSE index
  IN IF 1 <= new_index /\ new_index <= n
     THEN IF at < 1 \/ at > n THEN ss
          ELSE [ss EXCEPT !.animations =
                  [@ EXCEPT ![at] = ss.animations[new_index],
                            ![new_index] = ss.animations[at]]]
     ELSE ss

(***************************************************************************)
(* codegen/generator.py                                                    *)
(***************************************************************************)
_CE_ANIM_NAMES(anim_type) == IF anim_type = "ShowCreation" THEN "Create" ELSE anim_type

DefaultFontSize == 48

\* f"{scale:.4g}" of font_size / 48.0: four significant digits.
Fmt4g(font_size) ==
  LET e == CASE font_size * 10 < 48 -> 5
             [] font_size < 48 -> 4
             [] font_size < 480 -> 3
             [] font_size < 4800 -> 2
             [] OTHER -> 1
  IN Num(RoundHalfEven(font_size * Pow10(e), DefaultFontSize), e)

\* f"{mx:.2f}" of a canvas coordinate (tenths of a unit) divided by 100.
Fmt2f(tenths) == Num(RoundHalfEven(tenths, 10), 2)

\* f"{duration:.1f}".
Fmt1f(duration) == Num(RoundHalfEven(duration, 10), 1)

\* abs(duration - 1.0) > 0.01.  In binary floating point 1.01 - 1.0 and
\* 1.0 - 0.99 both exceed 0.01, so a difference of one hundredth counts.
DurationDiffers(duration) == Abs(duration - 100) >= 1

\* abs(mx) > 0.01 or abs(my) > 0.01, mx = x / 100, my = -y / 100.
PositionDiffers(item) == Abs(item.x) > 10 \/ Abs(item.y) > 10

\* The lines of one object declaration (the loop body of _generate_body).
ObjectLines(e, ce) ==
  LET t == e.tracked
  IN << ObjLine(e.name, IF ce THEN "MathTex" ELSE "Tex", t.latex) >>
     \o (IF t.color # "" /\ Upper(t.color) # "#FFFFFF"
         THEN << ColorLine(e.name, t.color) >> ELSE << >>)
     \o (IF t.font_size # DefaultFontSize
         THEN << ScaleLine(e.name, Fmt4g(t.font_size)) >> ELSE << >>)
     \o (IF PositionDiffers(e.item)
         THEN << MoveLine(e.name, Fmt2f(e.item.x), Fmt2f(-e.item.y)) >> ELSE << >>)

\* The line of one animation step.
AnimationLine(anim, use_map) ==
  IF anim.anim_type = "Add" THEN AddLine(anim.target_name)
  ELSE IF anim.anim_type = "Wait"
  THEN (IF DurationDiffers(anim.duration) THEN WaitLine(Fmt1f(anim.duration)) ELSE WaitLine(NoNum))
  ELSE PlayLine(IF use_map THEN _CE_ANIM_NAMES(anim.anim_type) ELSE anim.anim_type,
                anim.target_name,
                IF DurationDiffers(anim.duration) THEN Fmt1f(anim.duration) ELSE NoNum,
                IF anim.easing # "" /\ anim.easing # "smooth" THEN anim.easing ELSE "")

RECURSIVE Flatten(_)
Flatten(seqs) == IF seqs = << >> THEN << >> ELSE Head(seqs) \o Flatten(Tail(seqs))

Returned(lines) == [exc |-> "", lines |-> lines]
Raised(exc) == [exc |-> exc, lines |-> << >>]

\* _generate_body: reading tracked.font_size of an object that has no such
\* attribute raises AttributeError.
_generate_body(ss, use_map, ce) ==
  LET objects == ss.objects
      animations == ss.animations
  IN IF objects = << >> /\ animations = << >> THEN Returned(<< >>)
     ELSE IF \E i \in 1..Len(objects) : objects[i].tracked.font_size = NoAttr
     THEN Raised("AttributeError")
     ELSE Returned(
            Flatten([i \in 1..Len(objects) |-> ObjectLines(objects[i], ce)])
            \o [i \in 1..Len(animations) |-> AnimationLine(animations[i], use_map)]
            \o (IF animations = << >> THEN << WaitLine(NoNum) >> ELSE << >>))

\* The wrapper both full-script generators share.
Script(scene_name, include_import, bg_line, bg_color, body) ==
  IF body.exc # "" THEN body
  ELSE Returned(
         (IF include_import THEN << OtherLine, OtherLine, OtherLine >> ELSE << >>)
         \o << ClassLine(scene_name), OtherLine >>
         \o (IF bg_color # "" /\ Upper(bg_color) # "#000000" THEN << bg_line, OtherLine >> ELSE << >>)
         \o (IF body.lines = << >> THEN << OtherLine >> ELSE body.lines))

generate_manimgl_code(ss, scene_name, include_import, bg_color) ==
  Script(scene_name, include_import, BgGlLine(bg_color), bg_color,
         _generate_body(ss, FALSE, FALSE))

generate_manimce_code(ss, scene_name, include_import, bg_color) ==
  Script(scene_name, include_import, BgCeLine(bg_color), bg_color,
         _generate_body(ss, TRUE, TRUE))

(***************************************************************************)
(* codegen/parser.py                                                       *)
(***************************************************************************)
ParsedObject(name, latex) ==
  [name |-> name, latex |-> latex, color |-> "#FFFFFF", font_size |-> 48, pos_x |-> 0, pos_y |-> 0]

ParsedAnimation(target_name, anim_type, duration, easing) ==
  [target_name |-> target_name, anim_type |-> anim_type, duration |-> duration, easing |-> easing]

ParsedScene(name) == [name |-> name, bg_color |-> "#000000", objects |-> << >>, animations |-> << >>]

\* A reverse table without the entry Create -> ShowCreation.
_CE_TO_GL_ANIM_empty(anim_type) == anim_type

_CE_TO_GL_ANIM(anim_type) == IF anim_type = "Create" THEN "ShowCreation" ELSE anim_type

FirstAt(seq, ch) ==
  IF \E i \in 1..Len(seq) : seq[i] = ch
  THEN CHOOSE i \in 1..Len(seq) : seq[i] = ch /\ \A j \in 1..(i - 1) : seq[j] # ch
  ELSE NoIndex

\* _RE_OBJ on the line  <name> = Tex(r"<s>")  after splitlines(): the text
\* that follows r" ends at the first line break; in it [^"]* runs up to the
\* first double quote, which a closing parenthesis must follow.
RawTail(s) ==
  LET full == s \o << Quote, ")" >>
      nl == FirstAt(full, Newline)
  IN IF nl = NoIndex THEN full ELSE SubSeq(full, 1, nl - 1)

ObjMatches(s) ==
  LET frag == RawTail(s)
      q == FirstAt(frag, Quote)
  IN q # NoIndex /\ q < Len(frag) /\ frag[q + 1] = ")"

ObjLatex(s) == SubSeq(RawTail(s), 1, FirstAt(RawTail(s), Quote) - 1)

PosOf(objects, name) ==
  IF \E i \in 1..Len(objects) : objects[i].name = name
  THEN CHOOSE i \in 1..Len(objects) : objects[i].name = name
  ELSE NoIndex

\* What a matched pattern does with its groups.  acc is the scene being
\* built; acc.exc names the exception that left the function.
ApplyPattern(acc, line) ==
  LET i == PosOf(acc.objects, line.n)
  IN CASE line.k \in {"bg_ce", "bg_gl"} -> [acc EXCEPT !.bg_color = line.c]
       [] line.k = "obj" ->
            IF ~ObjMatches(line.s) THEN acc
            ELSE IF i = NoIndex
            THEN [acc EXCEPT !.objects = Append(@, ParsedObject(line.n, ObjLatex(line.s)))]
            ELSE [acc EXCEPT !.objects[i] = ParsedObject(line.n, ObjLatex(line.s))]
       [] line.k = "color" ->
            IF i # NoIndex THEN [acc EXCEPT !.objects[i].color = line.c] ELSE acc
       [] line.k = "scale" ->
            IF line.x.st # "num" THEN acc
            ELSE IF i # NoIndex
            THEN [acc EXCEPT !.objects[i].font_size =
                    LET r == RoundHalfEven(line.x.m * 48, Pow10(line.x.e))
                    IN IF r < 8 THEN 8 ELSE r]
            ELSE acc
       [] line.k = "move" ->
            IF line.x.st # "num" \/ line.y.st # "num" THEN acc
            ELSE IF i # NoIndex
            THEN [acc EXCEPT !.objects[i].pos_x = Hundredths(line.x),
                             !.objects[i].pos_y = Hundredths(line.y)]
            ELSE acc
       [] line.k = "add" ->
            [acc EXCEPT !.animations = Append(@, ParsedAnimation(line.n, "Add", 0, ""))]
       [] line.k = "wait" ->
            IF line.x.st = "bad" THEN [acc EXCEPT !.exc = "ValueError"]
            ELSE [acc EXCEPT !.animations = Append(@, ParsedAnimation("", "Wait",
                     IF line.x.st = "num" THEN Hundredths(line.x) ELSE 100, ""))]
       [] line.k = "play" ->
            IF line.x.st = "bad" THEN [acc EXCEPT !.exc = "ValueError"]
            ELSE [acc EXCEPT !.animations = Append(@, ParsedAnimation(line.n,
                     _CE_TO_GL_ANIM(line.c),
                     IF line.x.st = "num" THEN Hundredths(line.x) ELSE 100,
                     IF line.r # "" THEN line.r ELSE "smooth"))]
       [] OTHER -> acc

\* pattern.search(stripped): the leftmost piece of the line the pattern
\* matches, NoIndex for none.
Search(line, k) ==
  LET pieces == << [line EXCEPT !.t = << >>] >> \o line.t
      hits == {h \in 1..Len(pieces) :
                 pieces[h].k = k /\ (k = "obj" => ObjMatches(pieces[h].s))}
  IN IF hits = {} THEN NoIndex ELSE CHOOSE h \in hits : \A g \in hits : h <= g

Piece(line, k) == (<< [line EXCEPT !.t = << >>] >> \o line.t)[Search(line, k)]

\* One turn of the loop over block.splitlines() with the patterns in another
\* order: the Wait pattern is tried before the construction pattern.
ParseLine_wait_first(acc, line) ==
  IF line.k = "comment" THEN acc
  ELSE IF Search(line, "bg_ce") # NoIndex THEN ApplyPattern(acc, Piece(line, "bg_ce"))
  ELSE IF Search(line, "bg_gl") # NoIndex THEN ApplyPattern(acc, Piece(line, "bg_gl"))
  ELSE IF Search(line, "wait") # NoIndex THEN ApplyPattern(acc, Piece(line, "wait"))
  ELSE IF Search(line, "obj") # NoIndex THEN ApplyPattern(acc, Piece(line, "obj"))
  ELSE IF Search(line, "color") # NoIndex THEN ApplyPattern(acc, Piece(line, "color"))
  ELSE IF Search(line, "scale") # NoIndex THEN ApplyPattern(acc, Piece(line, "scale"))
  ELSE IF Search(line, "move") # NoIndex THEN ApplyPattern(acc, Piece(line, "move"))
  ELSE IF Search(line, "add") # NoIndex THEN ApplyPattern(acc, Piece(line, "add"))
  ELSE IF Search(line, "play") # NoIndex THEN ApplyPattern(acc, Piece(line, "play"))
  ELSE acc

\* One turn of the loop over block.splitlines(): a comment is skipped, then
\* the patterns are tried in the order of the code and the first that
\* matches ends the turn.
ParseLine(acc, line) ==
  IF line.k = "comment" THEN acc
  ELSE IF Search(line, "bg_ce") # NoIndex THEN ApplyPattern(acc, Piece(line, "bg_ce"))
  ELSE IF Search(line, "bg_gl") # NoIndex THEN ApplyPattern(acc, Piece(line, "bg_gl"))
  ELSE IF Search(line, "obj") # NoIndex THEN ApplyPattern(acc, Piece(line, "obj"))
  ELSE IF Search(line, "color") # NoIndex THEN ApplyPattern(acc, Piece(line, "color"))
  ELSE IF Search(line, "scale") # NoIndex THEN ApplyPattern(acc, Piece(line, "scale"))
  ELSE IF Search(line, "move") # NoIndex THEN ApplyPattern(acc, Piece(line, "move"))
  ELSE IF Search(line, "add") # NoIndex THEN ApplyPattern(acc, Piece(line, "add"))
  ELSE IF Search(line, "wait") # NoIndex THEN ApplyPattern(acc, Piece(line, "wait"))
  ELSE IF Search(line, "play") # NoIndex THEN ApplyPattern(acc, Piece(line, "play"))
  ELSE acc

RECURSIVE ParseLines(_, _)
ParseLines(acc, lines) ==
  IF lines = << >> \/ acc.exc # "" THEN acc
  ELSE Bind(ParseLine(acc, Head(lines)), LAMBDA next : ParseLines(next, Tail(lines)))

\* _parse_scene_block; the result carries exc, "" when the function returned.
_parse_scene_block(scene_name, block) ==
  ParseLines([name |-> scene_name, bg_color |-> "#000000", objects |-> << >>,
              animations |-> << >>, exc |-> ""], block)

\* parse_code that reads a text without a class declaration as one scene.
parse_code_unmarked(code) ==
  LET block == _parse_scene_block("Scene1", code)
  IN IF block.exc # "" THEN [status |-> "ValueError", scenes |-> << >>]
     ELSE [status |-> "ok",
           scenes |-> << [name |-> block.name, bg_color |-> block.bg_color,
                          objects |-> block.objects, animations |-> block.animations] >>]

\* parse_code: status "None" (no class declaration), "ok" with the scenes, or
\* the name of the exception raised.
parse_code(code) ==
  LET marks == {i \in 1..Len(code) : code[i].k = "class"}
      NextMark(i) == IF \E j \in marks : j > i
                     THEN CHOOSE j \in marks : j > i /\ \A h \in marks : h > i => j <= h
                     ELSE Len(code) + 1
      Block(i) == _parse_scene_block(code[i].n, SubSeq(code, i + 1, NextMark(i) - 1))
      ordered == SelectSeq([i \in 1..Len(code) |-> i], LAMBDA i : i \in marks)
      blocks == [h \in 1..Len(ordered) |-> Block(ordered[h])]
  IN IF marks = {} THEN [status |-> "None", scenes |-> << >>]
     ELSE IF \E h \in 1..Len(blocks) : blocks[h].exc # ""
     THEN [status |-> "ValueError", scenes |-> << >>]
     ELSE [status |-> "ok",
           scenes |-> [h \in 1..Len(blocks) |->
                         [name |-> blocks[h].name, bg_color |-> blocks[h].bg_color,
                          objects |-> blocks[h].objects, animations |-> blocks[h].animations]]]

(***************************************************************************)
(* The generator and the parser as functions: an input scene is generated  *)
(* in one dialect and the text parsed back; or a hand-written text is      *)
(* parsed.                                                                 *)
(***************************************************************************)
MaxHandLines == 2   \* lines of a hand-written block

Contents == SeqsUpTo(Chars, MaxLen)
Colors == {"#FFFFFF", "#ffffff", "#FF0000"}
BgColors == {"#000000", "#ff0000"}
FontSizes == {NoAttr, 48, 24, 5}
Positions == {<<0, 0>>, <<9, 0>>, <<306, -1204>>}
Durations == {100, 125}
Easings == {"smooth", "linear", ""}
AnimTypes == {"Write", "ShowCreation", "Add", "Wait"}

Entry(name, latex, color, font_size, pos, id) ==
  [name |-> name,
   tracked |-> [TrackedObject(name, latex, color) EXCEPT !.font_size = font_size],
   item |-> Item(id, pos[1], pos[2])]

DefaultEntry(name, id) == Entry(name, <<"a">>, "#FFFFFF", 48, <<0, 0>>, id)

StepsOver(names) ==
  {AnimationEntry(t, k, d, e) : t \in names, k \in AnimTypes \ {"Wait"}, d \in Durations, e \in Easings}
  \cup {AnimationEntry(t, "Wait", d, e) : t \in names \cup {""}, d \in Durations, e \in {"smooth", ""}}

\* Scenes that vary one object in every field.
ObjectScenes ==
  {[name |-> "Scene1", bg_color |-> bg,
    state |-> [objects |-> << Entry("eq_1", l, c, f, p, 1) >> \o more,
               animations |-> anims, name_counters |-> 2]] :
     l \in Contents, c \in Colors, f \in FontSizes, p \in Positions, bg \in BgColors,
     more \in {<< >>, << DefaultEntry("eq_2", 2) >>},
     anims \in {<< >>, << AnimationEntry("eq_1", "Write", 100, "smooth") >>}}

\* Scenes that vary the step list.
StepScenes ==
  {[name |-> "Scene1", bg_color |-> "#000000",
    state |-> [objects |-> objs, animations |-> anims, name_counters |-> 2]] :
     objs \in {<< DefaultEntry("eq_1", 1) >>, << DefaultEntry("eq_1", 1), DefaultEntry("eq_2", 2) >>},
     anims \in SeqsUpTo(StepsOver({"eq_1"}), MaxSteps)}

EmptyScene == [name |-> "Scene1", bg_color |-> "#000000", state |-> SceneState]

RTScenes == ObjectScenes \cup StepScenes \cup {EmptyScene}

HandLines ==
  {OtherLine, ClassLine("B"), BgCeLine("#ff0000"),
   ObjLine("x", "Tex", <<"a">>), ColorLine("x", "#FF0000"),
   ScaleLine("x", Num(5, 1)), ScaleLine("x", BadNum),
   MoveLine("x", Num(150, 2), Num(-25, 2)), MoveLine("x", BadNum, Num(0, 0)),
   AddLine("x"), WaitLine(Num(2, 0)), WaitLine(BadNum),
   PlayLine("Create", "x", Num(25, 1), "linear"), PlayLine("Write", "x", BadNum, ""),
   With(WaitLine(NoNum), ObjLine("y", "Tex", <<"a">>)),
   With(ColorLine("x", "#FF0000"), BgGlLine("#ff0000")),
   CommentLine(WaitLine(NoNum))}

HandTexts ==
  {pre \o body : pre \in {<< >>, << ClassLine("A") >>}, body \in SeqsUpTo(HandLines, MaxHandLines)}

NoParse == [status |-> "", scenes |-> << >>]

\* Step lists of up to MaxSteps + 1 steps, with repeated steps among them.
StepLists ==
  SeqsUpTo({AnimationEntry("eq_1", "Write", 100, "smooth"),
            AnimationEntry("", "Wait", 100, ""),
            AnimationEntry("eq_2", "FadeOut", 50, "linear")}, MaxSteps + 1)

RTInit ==
  \/ \E anims \in StepLists :
       rt = [stage |-> "input", kind |-> "steps", dialect |-> "",
             scene |-> [name |-> "Scene1", bg_color |-> "#000000",
                        state |-> [objects |-> << DefaultEntry("eq_1", 1), DefaultEntry("eq_2", 2) >>,
                                   animations |-> anims, name_counters |-> 3]],
             code |-> Returned(<< >>), parsed |-> NoParse, index |-> 0, delta |-> 0]
  \/ \E S \in RTScenes :
       rt = [stage |-> "input", kind |-> "scene", scene |-> S, dialect |-> "",
             code |-> Returned(<< >>), parsed |-> NoParse]
  \/ \E T \in HandTexts :
       rt = [stage |-> "input", kind |-> "text", scene |-> EmptyScene, dialect |-> "",
             code |-> Returned(T), parsed |-> NoParse]

Generate(S, dialect) ==
  IF dialect = "gl"
  THEN generate_manimgl_code(S.state, S.name, TRUE, S.bg_color)
  ELSE generate_manimce_code(S.state, S.name, TRUE, S.bg_color)

uivars == <<scenes, current_scene_idx, canvas, selected, props, widgets, sync, clipboard, item_counter,
            scene_counter, files, last>>
vars == <<scenes, current_scene_idx, canvas, selected, props, widgets, sync, clipboard, item_counter,
          scene_counter, files, last, rt>>

\* A file: whether it was written, and its lines.
NoFile == [written |-> FALSE, lines |-> << >>]
File(lines) == [written |-> TRUE, lines |-> lines]
NoFiles == [export |-> NoFile, replay |-> NoFile]

NoPanel ==
  [targets |-> << >>, target |-> "", type |-> "Write", duration |-> 100, easing |-> "smooth",
   easing_enabled |-> TRUE, duration_enabled |-> TRUE, target_enabled |-> TRUE]

\* The window's variables while only the generator and the parser run.
UIIdle ==
  /\ scenes = << >> /\ current_scene_idx = 1 /\ canvas = {} /\ selected = {}
  /\ props = [current_name |-> None, current_anim_index |-> NoIndex, updating |-> FALSE]
  /\ widgets = [editObjName |-> "", anim_row |-> NoIndex, tab |-> 0, page |-> 0,
                code_gl |-> << >>, code_ce |-> << >>, panel |-> NoPanel,
                scene_row |-> NoIndex, hidden |-> {}]
  /\ sync = [updating_code |-> FALSE, code_gl_manual |-> FALSE, code_ce_manual |-> FALSE,
             timer |-> FALSE, edited |-> 0]
  /\ clipboard = None /\ item_counter = 0
  /\ scene_counter = 0 /\ files = NoFiles
  /\ last = [op |-> "", exc |-> "", edits |-> 0]

InitRT == RTInit /\ UIIdle

RTGenerate(dialect) ==
  /\ rt.stage = "input" /\ rt.kind = "scene"
  /\ rt' = [rt EXCEPT !.stage = "generated", !.dialect = dialect,
                      !.code = Generate(rt.scene, dialect)]
  /\ UNCHANGED uivars

RTParse ==
  /\ \/ rt.stage = "generated" /\ rt.code.exc = ""
     \/ rt.stage = "input" /\ rt.kind = "text"
  /\ rt' = [rt EXCEPT !.stage = "parsed", !.parsed = parse_code(rt.code.lines)]
  /\ UNCHANGED uivars

\* One call of SceneState.move_animation or SceneState.remove_animation, the
\* row counted from 1 (row 0 is Python's index -1).
RTStepList(op, index, delta) ==
  /\ rt.stage = "input" /\ rt.kind = "steps"
  /\ rt' = [rt EXCEPT !.stage = op, !.index = index, !.delta = delta,
                      !.scene.state = IF op = "move_animation" THEN move_animation(@, index, delta)
                                      ELSE remove_animation(@, index)]
  /\ UNCHANGED uivars

RTNext ==
  \/ \E dialect \in {"gl", "ce"} : RTGenerate(dialect)
  \/ RTParse
  \/ \E index \in 0..(MaxSteps + 2), delta \in {-2, -1, 1, 2} : RTStepList("move_animation", index, delta)
  \/ \E index \in 0..(MaxSteps + 2) : RTStepList("remove_animation", index, 0)

SpecRT == InitRT /\ [][RTNext]_vars

(***************************************************************************)
(* The window and the properties panel.  A handler is a function on the    *)
(* world w, the record of the variables plus exc, the exception raised and *)
(* not yet caught ("" for none).  An exception ends the code that raised   *)
(* it and keeps what was assigned before; one raised in a slot that a      *)
(* signal started does not reach the code that emitted the signal.         *)

(***************************************************************************)
World ==
  [scenes |-> scenes, current_scene_idx |-> current_scene_idx, canvas |-> canvas,
   selected |-> selected, props |-> props, widgets |-> widgets, sync |-> sync,
   clipboard |-> clipboard, item_counter |-> item_counter,
   scene_counter |-> scene_counter, files |-> files, exc |-> ""]

Slot(w) == [w EXCEPT !.exc = ""]

scene_state(w) == w.scenes[w.current_scene_idx].state

\* A window that writes a scene state into every scene of the project.
SetState_every(w, ss) ==
  [w EXCEPT !.scenes = [i \in DOMAIN @ |-> [@[i] EXCEPT !.state = ss]]]

SetState(w, ss) == [w EXCEPT !.scenes[w.current_scene_idx].state = ss]

find_name_for_item(ss, id) ==
  IF \E i \in 1..Len(ss.objects) : ss.objects[i].item.id = id
  THEN ss.objects[CHOOSE i \in 1..Len(ss.objects) : ss.objects[i].item.id = id].name
  ELSE None

\* The one selected item's name, or None (selection not of one item, or the
\* item is not registered).
SelectedName(w) ==
  IF Cardinality(w.selected) = 1
  THEN find_name_for_item(scene_state(w), CHOOSE id \in w.selected : TRUE)
  ELSE None

_show_properties(w, name) ==
  LET w1 == [w EXCEPT !.props.current_name = name]
      i == IndexOf(scene_state(w), name)
  IN IF i = NoIndex THEN w1
     ELSE LET w2 == [w1 EXCEPT !.props.updating = TRUE, !.widgets.page = 1,
                               !.widgets.editObjName = name]
          IN IF scene_state(w).objects[i].tracked.font_size = NoAttr
             THEN [w2 EXCEPT !.exc = "AttributeError"]
             ELSE [w2 EXCEPT !.props.updating = FALSE]

_on_selection_changed(w) ==
  IF w.current_scene_idx > Len(w.scenes) THEN [w EXCEPT !.exc = "IndexError"]
  ELSE IF SelectedName(w) # None
  THEN _show_properties([w EXCEPT !.props.current_anim_index = NoIndex], SelectedName(w))
  ELSE [w EXCEPT !.props.current_name = None,
                 !.widgets.page = IF w.props.current_anim_index # NoIndex THEN @ ELSE 0]

\* The animation page's widgets after _show_anim_properties filled them: a
\* combo box keeps its text when asked to show a text it does not list.
AnimTypeItems == {"Write", "ShowCreation", "Add", "Wait"}
EasingItems == {"smooth", "linear"}

_show_anim_properties(w, row) ==
  LET anims == scene_state(w).animations
      names == object_names(scene_state(w))
      anim == anims[row]
      panel == w.widgets.panel
  IN IF row > Len(anims) THEN w
     ELSE [w EXCEPT
            !.props.updating = FALSE,
            !.widgets.page = 3,
            !.widgets.panel =
               [targets |-> names,
                target |-> IF \E i \in 1..Len(names) : names[i] = anim.target_name
                           THEN anim.target_name
                           ELSE IF names = << >> THEN "" ELSE names[1],
                type |-> IF anim.anim_type \in AnimTypeItems THEN anim.anim_type ELSE panel.type,
                duration |-> anim.duration,
                easing |-> IF anim.easing \in EasingItems THEN anim.easing ELSE panel.easing,
                easing_enabled |-> anim.anim_type \notin {"Wait", "Add"},
                duration_enabled |-> anim.anim_type # "Add",
                target_enabled |-> anim.anim_type # "Wait"]]

_on_animation_row_changed(w, row) ==
  IF row = NoIndex
  THEN LET w1 == [w EXCEPT !.props.current_anim_index = NoIndex]
       IN IF SelectedName(w1) # None THEN _show_properties(w1, SelectedName(w1))
          ELSE [w1 EXCEPT !.widgets.page = IF w1.props.current_name = None THEN 0 ELSE @]
  ELSE IF row > Len(scene_state(w).animations) THEN w
  ELSE _show_anim_properties(
         [w EXCEPT !.props.current_anim_index = row, !.props.current_name = None], row)

\* animationsList.clear() loses the current row, which emits currentRowChanged(-1);
\* the rows are then those of the step list.
_refresh_animations_list(w) ==
  IF w.widgets.anim_row # NoIndex
  THEN Slot(_on_animation_row_changed([w EXCEPT !.widgets.anim_row = NoIndex], NoIndex))
  ELSE w

\* _generate_all_gl_code / _generate_all_ce_code: the scenes' scripts joined
\* by a newline, the import only in the first.
RECURSIVE GenerateAll(_, _, _)
GenerateAll(all, i, dialect) ==
  IF i > Len(all) THEN Returned(<< >>)
  ELSE LET code == IF dialect = "gl"
                   THEN generate_manimgl_code(all[i].state, all[i].name, i = 1, all[i].bg_color)
                   ELSE generate_manimce_code(all[i].state, all[i].name, i = 1, all[i].bg_color)
           rest == GenerateAll(all, i + 1, dialect)
       IN IF code.exc # "" THEN code
          ELSE IF rest.exc # "" THEN rest
          ELSE Returned(code.lines \o (IF i < Len(all) THEN << OtherLine >> ELSE << >>) \o rest.lines)

_generate_all_gl_code(w) == GenerateAll(w.scenes, 1, "gl")

_generate_all_ce_code(w) == GenerateAll(w.scenes, 1, "ce")

\* A window whose edit handlers do not look at _updating_code.
_on_code_edited_unguarded(w) ==
  IF w.widgets.tab = 1 THEN [w EXCEPT !.sync.code_gl_manual = TRUE, !.sync.timer = TRUE]
  ELSE [w EXCEPT !.sync.code_ce_manual = TRUE, !.sync.timer = TRUE]

\* _on_code_gl_edited / _on_code_ce_edited: textChanged of the editor of the
\* tab shown.
_on_code_edited(w) ==
  IF w.sync.updating_code THEN w
  ELSE IF w.widgets.tab = 1 THEN [w EXCEPT !.sync.code_gl_manual = TRUE, !.sync.timer = TRUE]
  ELSE [w EXCEPT !.sync.code_ce_manual = TRUE, !.sync.timer = TRUE]

\* setPlainText emits textChanged while _updating_code is set.
_refresh_code_editors(w) ==
  LET w1 == [w EXCEPT !.sync.updating_code = TRUE]
      gl == _generate_all_gl_code(w)
      ce == _generate_all_ce_code(w)
  IN IF w.widgets.tab = 1 /\ ~w.sync.code_gl_manual
     THEN IF gl.exc # "" THEN [w1 EXCEPT !.exc = gl.exc]
          ELSE [_on_code_edited([w1 EXCEPT !.widgets.code_gl = gl.lines])
                  EXCEPT !.sync.updating_code = FALSE]
     ELSE IF w.widgets.tab = 2 /\ ~w.sync.code_ce_manual
     THEN IF ce.exc # "" THEN [w1 EXCEPT !.exc = ce.exc]
          ELSE [_on_code_edited([w1 EXCEPT !.widgets.code_ce = ce.lines])
                  EXCEPT !.sync.updating_code = FALSE]
     ELSE [w1 EXCEPT !.sync.updating_code = FALSE]

\* QGraphicsScene.removeItem: an item leaving the selection emits selectionChanged.
removeItem(w, id) ==
  LET w1 == [w EXCEPT !.canvas = @ \ {id}, !.selected = @ \ {id}]
  IN IF id \in w.selected THEN Slot(_on_selection_changed(w1)) ELSE w1

\* One turn of the loop over parsed.objects.
ReconcileObject(w, pobj) ==
  LET state == scene_state(w)
      i == IndexOf(state, pobj.name)
      e == state.objects[i]
      latex == IF e.tracked.latex # pobj.latex THEN pobj.latex ELSE e.tracked.latex
      color == IF Upper(e.tracked.color) # Upper(pobj.color) THEN pobj.color ELSE e.tracked.color
      new_sx == pobj.pos_x * 10
      new_sy == (0 - pobj.pos_y) * 10
      moved == Abs(e.item.x - new_sx) > 5 \/ Abs(e.item.y - new_sy) > 5
      w1 == SetState(w, [state EXCEPT !.objects[i].tracked.latex = latex,
                                      !.objects[i].tracked.color = color])
  IN IF i # NoIndex
     THEN IF e.tracked.font_size = NoAttr THEN [w1 EXCEPT !.exc = "AttributeError"]
          ELSE SetState(w, [state EXCEPT
                 !.objects[i].tracked.latex = latex,
                 !.objects[i].tracked.color = color,
                 !.objects[i].tracked.font_size = pobj.font_size,
                 !.objects[i].item.x = IF moved THEN new_sx ELSE @,
                 !.objects[i].item.y = IF moved THEN new_sy ELSE @])
     ELSE \* MathTexItem(...) is added to the canvas, then TrackedObject(font_size=...) raises
          [w EXCEPT !.item_counter = @ + 1, !.canvas = @ \cup {w.item_counter + 1},
                    !.exc = "TypeError"]

RECURSIVE ReconcileObjects(_, _)
ReconcileObjects(w, pobjs) ==
  IF pobjs = << >> \/ w.exc # "" THEN w
  ELSE Bind(ReconcileObject(w, Head(pobjs)), LAMBDA w1 : ReconcileObjects(w1, Tail(pobjs)))

\* The loop over current_names - parsed_names.
RECURSIVE RemoveDeleted(_, _)
RemoveDeleted(w, names) ==
  IF names = << >> THEN w
  ELSE LET state == scene_state(w)
           i == IndexOf(state, Head(names))
           w1 == SetState(w, unregister(state, Head(names)))
       IN Bind(IF i = NoIndex THEN w1 ELSE removeItem(w1, state.objects[i].item.id),
               LAMBDA w2 : RemoveDeleted(w2, Tail(names)))

\* The parsed scene _apply_code_to_canvas picks: the one of the current
\* scene's name, else the one at the current index; NoIndex for none.
MatchingScene(w, parsed) ==
  LET named == {h \in 1..Len(parsed) : parsed[h].name = w.scenes[w.current_scene_idx].name}
  IN IF named # {} THEN CHOOSE h \in named : \A g \in named : h <= g
     ELSE IF w.current_scene_idx <= Len(parsed) THEN w.current_scene_idx
     ELSE NoIndex

\* _apply_code_to_canvas from the loop over parsed.objects on.
ApplyParsed(w, parsed) ==
  LET parsed_names == {parsed.objects[i].name : i \in 1..Len(parsed.objects)}
      gone == SelectSeq(object_names(scene_state(w)), LAMBDA n : n \notin parsed_names)
      Animations(w2) ==
        SetState(w2, [scene_state(w2) EXCEPT !.animations =
           [i \in 1..Len(parsed.animations) |->
              AnimationEntry(parsed.animations[i].target_name, parsed.animations[i].anim_type,
                             parsed.animations[i].duration, parsed.animations[i].easing)]])
      Metadata(w3) ==
        [w3 EXCEPT
           !.scenes[w.current_scene_idx].bg_color =
              IF Upper(parsed.bg_color) # Upper(@) THEN parsed.bg_color ELSE @,
           !.scenes[w.current_scene_idx].name = parsed.name]
      Refresh(w5) ==
        IF w5.props.current_name = None THEN w5
        ELSE IF IndexOf(scene_state(w5), w5.props.current_name) # NoIndex
        THEN _show_properties(w5, w5.props.current_name)
        ELSE [w5 EXCEPT !.props.current_name = None, !.widgets.page = 0]
      Finish(w6) == IF w6.exc # "" THEN w6 ELSE [w6 EXCEPT !.sync.updating_code = FALSE]
      Rest(w1) ==
        IF w1.exc # "" THEN w1
        ELSE Bind(RemoveDeleted(w1, gone), LAMBDA w2 :
             Bind(Metadata(Animations(w2)), LAMBDA w4 :
             Bind(_refresh_animations_list(w4), LAMBDA w5 :
             Bind(Refresh(w5), Finish))))
  IN Bind(ReconcileObjects([w EXCEPT !.sync.updating_code = TRUE], parsed.objects), Rest)

_apply_code_to_canvas(w) ==
  LET code == IF w.widgets.tab = 1 THEN w.widgets.code_gl ELSE w.widgets.code_ce
      Apply(result) ==
        IF result.status = "ValueError" THEN [w EXCEPT !.exc = "ValueError"]
        ELSE IF result.status = "None" \/ result.scenes = << >> THEN w
        ELSE IF w.current_scene_idx > Len(w.scenes) THEN [w EXCEPT !.exc = "IndexError"]
        ELSE IF MatchingScene(w, result.scenes) = NoIndex THEN w
        ELSE ApplyParsed(w, result.scenes[MatchingScene(w, result.scenes)])
  IN IF w.widgets.tab \notin {1, 2} THEN w ELSE Bind(parse_code(code), Apply)

(***************************************************************************)
(* The window's operations (Spec).                                         *)
(***************************************************************************)
DefaultLatex == << "a" >>                       \* "F=ma"
PlacePositions == {<<1500, -2000>>}             \* where the user clicks
DragPositions == {<<306, 0>>}                   \* where the user drops a dragged item
PickedColors == {"#ff0000"}                     \* QColor.name() of the colour picked
TypedNames == {"eq_2", "force_eq"}              \* texts typed into editObjName
AddTypes == {"Wait"}                            \* comboAnimationType
AddDurations == {125}                           \* spinDuration
PanelDurations == {250}                         \* spinAnimDuration
SceneNames == {"Intro"}                         \* texts typed into editSceneName
Tabs == {0, 1, 2}                               \* Canvas, Code GL, Code CE

\* Texts the user types into a code editor.
UITexts ==
  {<< >>,
   << OtherLine >>,
   << ClassLine("Scene1"), WaitLine(Num(125, 2)) >>,
   << ClassLine("Scene1"), PlayLine("Write", "ghost", NoNum, "") >>,
   << ClassLine("Scene1"), BgGlLine("#FF0000"),
      ObjLine("eq_2", "Tex", << "a", "a" >>), ColorLine("eq_2", "#FF0000"),
      ObjLine("x", "Tex", << "a" >>), PlayLine("Write", "eq_2", NoNum, "") >>}

RTIdle ==
  [stage |-> "idle", kind |-> "", scene |-> EmptyScene, dialect |-> "",
   code |-> Returned(<< >>), parsed |-> NoParse]

\* __init__: the scene "Scene1" holding the default item, registered as eq_1
\* with its Write step; _on_scene_selected(0) has filled the list of steps
\* and shown the scene's properties.
Init ==
  /\ scenes = << [name |-> "Scene1", bg_color |-> "#000000",
                  state |-> add_animation(
                     register(next_name(SceneState), "eq_1",
                              TrackedObject("eq_1", DefaultLatex, "#FFFFFF"), Item(1, 0, 0)),
                     AnimationEntry("eq_1", "Write", 100, "smooth"))] >>
  /\ current_scene_idx = 1
  /\ canvas = {1} /\ selected = {} /\ item_counter = 1
  /\ props = [current_name |-> None, current_anim_index |-> NoIndex, updating |-> FALSE]
  /\ widgets = [editObjName |-> "", anim_row |-> NoIndex, tab |-> 0, page |-> 4,
                code_gl |-> << >>, code_ce |-> << >>, panel |-> NoPanel,
                scene_row |-> 1, hidden |-> {}]
  /\ sync = [updating_code |-> FALSE, code_gl_manual |-> FALSE, code_ce_manual |-> FALSE,
             timer |-> FALSE, edited |-> 0]
  /\ clipboard = None
  /\ scene_counter = 1 /\ files = NoFiles
  /\ last = [op |-> "__init__", exc |-> "", edits |-> 0]
  /\ rt = RTIdle

\* Widget fields no handler reads before it rewrites them are kept at one
\* value: the animation page's target list, target, duration and enabled
\* flags while another page shows (_show_anim_properties rewrites them), and
\* editObjName while the object page is hidden (_show_properties rewrites it).
Shown(wd) ==
  [wd EXCEPT
     !.editObjName = IF wd.page = 1 THEN @ ELSE "",
     !.panel = IF wd.page = 3 THEN @
               ELSE [NoPanel EXCEPT !.type = wd.panel.type, !.easing = wd.panel.easing]]

\* The handlers that edit one property of an object, a step or the scene.
PropertyEdits ==
  {"drag", "_on_color_btn_clicked", "_on_anim_target_changed", "_on_anim_type_changed",
   "_on_anim_duration_changed", "_on_anim_easing_changed", "_on_scene_name_edited",
   "_on_scene_bg_color_clicked"}

\* The state after a handler that ran from the current variables to the
\* world w; last names the handler when it changed a variable or raised.
Commit(after, op) ==
  \E w \in {after} :
  /\ scenes' = w.scenes
  /\ current_scene_idx' = w.current_scene_idx
  /\ canvas' = w.canvas
  /\ selected' = w.selected
  /\ props' = w.props
  /\ widgets' = Shown(w.widgets)
  /\ sync' = w.sync
  /\ clipboard' = w.clipboard
  /\ item_counter' = w.item_counter
  /\ scene_counter' = w.scene_counter
  /\ files' = w.files
  /\ last' = IF w.exc = "" /\ [w EXCEPT !.widgets = Shown(@)] = World THEN last
             ELSE [op |-> op, exc |-> w.exc,
                   edits |-> IF op \in PropertyEdits THEN last.edits + 1 ELSE last.edits]
  /\ UNCHANGED rt

\* A property edit is allowed while the run has made fewer than MaxEdits.
MayEdit == last.edits < MaxEdits

\* eventFilter: a left click on the canvas with the MathTex tool.
Place(pos) ==
  /\ widgets.tab = 0
  /\ item_counter < 1 + MaxPlaced
  /\ Len(scene_state(World).animations) < MaxSteps
  /\ LET ss1 == next_name(scene_state(World))
         name == EqName(ss1.name_counters)
         id == item_counter + 1
         ss2 == register(ss1, name, TrackedObject(name, DefaultLatex, "#FFFFFF"),
                         Item(id, pos[1], pos[2]))
         ss3 == add_animation(ss2, AnimationEntry(name, "Write", 100, "smooth"))
         w1 == [SetState(World, ss3) EXCEPT !.item_counter = id, !.canvas = @ \cup {id}]
     IN Commit(_refresh_code_editors(_refresh_animations_list(w1)), "place")

\* A click, ctrl-click or rubber band on the canvas that changes the selection.
SetSelection(S) ==
  /\ widgets.tab = 0
  /\ S # selected
  /\ S \cap widgets.hidden = {}
  /\ Commit(_on_selection_changed([World EXCEPT !.selected = S]), "select")

\* Dragging a selected, registered item of the current scene.
DragItem(id, pos) ==
  /\ MayEdit
  /\ widgets.tab = 0
  /\ id \in selected
  /\ LET state == scene_state(World)
         i == IndexOf(state, find_name_for_item(state, id))
     IN /\ i # NoIndex
        /\ << state.objects[i].item.x, state.objects[i].item.y >> # pos
        /\ Commit(SetState(World, [state EXCEPT !.objects[i].item.x = pos[1],
                                                !.objects[i].item.y = pos[2]]),
                  "drag")

\* canvas_scene.changed -> PropertiesController._on_scene_changed
_on_scene_changed(w) ==
  IF w.props.current_name = None \/ w.props.updating THEN w
  ELSE IF IndexOf(scene_state(w), w.props.current_name) = NoIndex THEN w
  ELSE _refresh_code_editors(w)

OnSceneChanged == Commit(_on_scene_changed(World), "_on_scene_changed")

\* _add_animation: selected[0] is any of the selected items.
AddAnimation(id, type, duration) ==
  /\ id \in selected
  /\ Len(scene_state(World).animations) < MaxSteps
  /\ LET name == find_name_for_item(scene_state(World), id)
         w1 == SetState(World, add_animation(scene_state(World),
                                             AnimationEntry(name, type, duration, "smooth")))
     IN IF name = None THEN Commit(World, "_add_animation")
        ELSE Commit(_refresh_code_editors(_refresh_animations_list(w1)), "_add_animation")

\* A click on a row of animationsList: currentRowChanged if the row is new,
\* then itemClicked.
_on_animation_clicked(w, row) ==
  _show_anim_properties([w EXCEPT !.props.current_anim_index = row,
                                  !.props.current_name = None], row)

SelectAnimRow(row) ==
  /\ row \in 1..Len(scene_state(World).animations)
  /\ LET w1 == IF row = widgets.anim_row THEN World
               ELSE Slot(_on_animation_row_changed([World EXCEPT !.widgets.anim_row = row], row))
     IN Commit(_on_animation_clicked(w1, row), "_on_animation_clicked")

_delete_animation(w) ==
  LET row == w.widgets.anim_row
  IN IF row = NoIndex THEN w
     ELSE _refresh_code_editors(_refresh_animations_list(
            SetState(w, remove_animation(scene_state(w), row))))

DeleteAnimation == Commit(_delete_animation(World), "_delete_animation")

_move_animation(w, delta) ==
  LET row == w.widgets.anim_row
      new_row == row + delta
      w1 == _refresh_code_editors(_refresh_animations_list(
              SetState(w, move_animation(scene_state(w), row, delta))))
  IN IF row = NoIndex THEN w
     ELSE IF w1.exc # "" THEN w1
     ELSE IF 1 <= new_row /\ new_row <= Len(scene_state(w1).animations)
     THEN Slot(_on_animation_row_changed([w1 EXCEPT !.widgets.anim_row = new_row], new_row))
     ELSE w1

MoveAnimation(delta) ==
  Commit(_move_animation(World, delta), "_move_animation")

\* The animation page (page 3 of propertiesStack) and its four fields.
_on_anim_target_changed(w, text) ==
  LET index == w.props.current_anim_index
  IN IF w.props.updating \/ index = NoIndex \/ text = "" THEN w
     ELSE IF index > Len(scene_state(w).animations) THEN w
     ELSE _refresh_code_editors(
            SetState(w, [scene_state(w) EXCEPT !.animations[index].target_name = text]))

AnimTargetChanged(text) ==
  /\ MayEdit
  /\ widgets.page = 3 /\ widgets.panel.target_enabled
  /\ \E i \in 1..Len(widgets.panel.targets) : widgets.panel.targets[i] = text
  /\ text # widgets.panel.target
  /\ Commit(_on_anim_target_changed([World EXCEPT !.widgets.panel.target = text], text),
            "_on_anim_target_changed")

_on_anim_type_changed(w, text) ==
  LET index == w.props.current_anim_index
  IN IF w.props.updating \/ index = NoIndex \/ text = "" THEN w
     ELSE IF index > Len(scene_state(w).animations) THEN w
     ELSE _refresh_code_editors(
            [SetState(w, [scene_state(w) EXCEPT !.animations[index].anim_type = text])
               EXCEPT !.widgets.panel.easing_enabled = text \notin {"Wait", "Add"},
                      !.widgets.panel.duration_enabled = text # "Add",
                      !.widgets.panel.target_enabled = text # "Wait"])

AnimTypeChanged(text) ==
  /\ MayEdit
  /\ widgets.page = 3
  /\ text # widgets.panel.type
  /\ Commit(_on_anim_type_changed([World EXCEPT !.widgets.panel.type = text], text),
            "_on_anim_type_changed")

_on_anim_duration_changed(w, value) ==
  LET index == w.props.current_anim_index
  IN IF w.props.updating \/ index = NoIndex THEN w
     ELSE IF index > Len(scene_state(w).animations) THEN w
     ELSE _refresh_code_editors(
            SetState(w, [scene_state(w) EXCEPT !.animations[index].duration = value]))

AnimDurationChanged(value) ==
  /\ MayEdit
  /\ widgets.page = 3 /\ widgets.panel.duration_enabled
  /\ value # widgets.panel.duration
  /\ Commit(_on_anim_duration_changed([World EXCEPT !.widgets.panel.duration = value], value),
            "_on_anim_duration_changed")

_on_anim_easing_changed(w, text) ==
  LET index == w.props.current_anim_index
  IN IF w.props.updating \/ index = NoIndex \/ text = "" THEN w
     ELSE IF index > Len(scene_state(w).animations) THEN w
     ELSE _refresh_code_editors(
            SetState(w, [scene_state(w) EXCEPT !.animations[index].easing = text]))

AnimEasingChanged(text) ==
  /\ MayEdit
  /\ widgets.page = 3 /\ widgets.panel.easing_enabled
  /\ text # widgets.panel.easing
  /\ Commit(_on_anim_easing_changed([World EXCEPT !.widgets.panel.easing = text], text),
            "_on_anim_easing_changed")

\* centerTabBar.currentChanged -> _on_center_tab_changed
SwitchTab(index) ==
  /\ index # widgets.tab
  /\ LET w1 == [World EXCEPT !.widgets.tab = index]
     IN Commit(IF index \in {1, 2} THEN _refresh_code_editors(w1) ELSE w1,
               "_on_center_tab_changed")

\* The user changes the text of the visible code editor (keeping it is a
\* change of blanks only): _on_code_gl_edited / _on_code_ce_edited.
EditCode(text) ==
  /\ widgets.tab \in {1, 2}
  /\ LET w1 == IF widgets.tab = 1 THEN [World EXCEPT !.widgets.code_gl = text]
                                  ELSE [World EXCEPT !.widgets.code_ce = text]
         w2 == _on_code_edited(w1)
         w3 == [w2 EXCEPT !.sync.edited = widgets.tab]
     IN Commit(IF sync.updating_code THEN w2 ELSE w3, "_on_code_edited")

\* _code_sync_timer.timeout -> _apply_code_to_canvas
SyncTimeout ==
  /\ sync.timer
  /\ item_counter < MaxItems
  /\ Commit(_apply_code_to_canvas([World EXCEPT !.sync.timer = FALSE, !.sync.edited = 0]),
            "_apply_code_to_canvas")

\* _delete_selected with the focus on neither list.
RECURSIVE DeleteItems(_, _)
DeleteItems(w, ids) ==
  IF ids = {} THEN w
  ELSE LET id == CHOOSE i \in ids : TRUE
           name == find_name_for_item(scene_state(w), id)
           w1 == IF name = None THEN w ELSE SetState(w, unregister(scene_state(w), name))
       IN Bind(removeItem(w1, id), LAMBDA w2 : DeleteItems(w2, ids \ {id}))

_delete_selected(w) == _refresh_animations_list(DeleteItems(w, w.selected))

DeleteSelected ==
  Commit(_delete_selected(World), "_delete_selected")

_copy_selected(w) ==
  LET name == SelectedName(w)
      e == scene_state(w).objects[IndexOf(scene_state(w), name)]
  IN IF name = None THEN w
     ELSE IF e.tracked.font_size = NoAttr THEN [w EXCEPT !.exc = "AttributeError"]
     ELSE [w EXCEPT !.clipboard = [latex |-> e.tracked.latex, color |-> e.tracked.color,
                                   font_size |-> e.tracked.font_size,
                                   pos_x |-> e.item.x, pos_y |-> e.item.y]]

CopySelected == Commit(_copy_selected(World), "_copy_selected")

\* _paste_clipboard: the item is built and added to the canvas, then
\* TrackedObject(font_size=...) raises.
_paste_clipboard(w) ==
  IF w.clipboard = None THEN w
  ELSE [SetState(w, next_name(scene_state(w))) EXCEPT
          !.item_counter = @ + 1, !.canvas = @ \cup {w.item_counter + 1}, !.exc = "TypeError"]

PasteClipboard ==
  /\ item_counter < MaxItems
  /\ Commit(_paste_clipboard(World), "_paste_clipboard")

\* The object page (page 1 of propertiesStack).
_on_color_btn_clicked(w, hex_color) ==
  LET name == w.props.current_name
      i == IndexOf(scene_state(w), name)
  IN IF name = None \/ i = NoIndex THEN w
     ELSE _refresh_code_editors(
            SetState(w, [scene_state(w) EXCEPT !.objects[i].tracked.color = hex_color]))

ColorPicked(hex_color) ==
  /\ MayEdit
  /\ widgets.page = 1
  /\ Commit(_on_color_btn_clicked(World, hex_color), "_on_color_btn_clicked")

_on_name_edited(w) ==
  LET new_name == w.widgets.editObjName
      old == w.props.current_name
      state == scene_state(w)
      i == IndexOf(state, old)
      retargeted == [state EXCEPT !.animations =
                       [h \in 1..Len(@) |->
                          IF @[h].target_name = old THEN [@[h] EXCEPT !.target_name = new_name]
                          ELSE @[h]]]
      tracked == [state.objects[i].tracked EXCEPT !.name = new_name]
  IN IF w.props.updating \/ old = None THEN w
     ELSE IF new_name = "" \/ new_name = old THEN w
     ELSE IF new_name \in NameSet(state) THEN [w EXCEPT !.widgets.editObjName = old]
     ELSE IF i = NoIndex THEN [SetState(w, retargeted) EXCEPT !.exc = "AttributeError"]
     ELSE [SetState(w, register(unregister(retargeted, old), new_name, tracked,
                                state.objects[i].item))
             EXCEPT !.props.current_name = new_name]

NameEdited(text) ==
  /\ widgets.page = 1
  /\ Commit(_on_name_edited([World EXCEPT !.widgets.editObjName = text]),
            "_on_name_edited")

_on_font_size_changed(w, value) ==
  LET name == w.props.current_name
      i == IndexOf(scene_state(w), name)
  IN IF w.props.updating \/ name = None \/ i = NoIndex THEN w
     ELSE _refresh_code_editors(
            SetState(w, [scene_state(w) EXCEPT !.objects[i].tracked.font_size = value]))

FontSizeChanged(value) ==
  /\ widgets.page = 1
  /\ Commit(_on_font_size_changed(World, value), "_on_font_size_changed")

\* The scene page (page 4 of propertiesStack).
SceneClicked ==
  Commit([World EXCEPT !.widgets.page = 4], "_on_scene_clicked")

_on_scene_name_edited(w, new_name) ==
  IF new_name = "" \/ new_name = w.scenes[w.current_scene_idx].name THEN w
  ELSE _refresh_code_editors([w EXCEPT !.scenes[w.current_scene_idx].name = new_name])

SceneNameEdited(text) ==
  /\ MayEdit
  /\ widgets.page = 4
  /\ Commit(_on_scene_name_edited(World, text), "_on_scene_name_edited")

SceneBgColorPicked(hex_color) ==
  /\ MayEdit
  /\ widgets.page = 4
  /\ Commit([World EXCEPT !.scenes[current_scene_idx].bg_color = hex_color],
            "_on_scene_bg_color_clicked")

\* The operations on the canvas, the lists and the property pages.
Next ==
  \/ \E pos \in PlacePositions : Place(pos)
  \/ \E S \in SUBSET canvas : SetSelection(S)
  \/ \E id \in canvas, pos \in DragPositions : DragItem(id, pos)
  \/ OnSceneChanged
  \/ \E id \in canvas, type \in AddTypes, duration \in AddDurations : AddAnimation(id, type, duration)
  \/ \E row \in 1..MaxSteps : SelectAnimRow(row)
  \/ DeleteAnimation
  \/ \E delta \in {-1, 1} : MoveAnimation(delta)
  \/ \E text \in {"eq_1", "eq_2", "eq_3"} : AnimTargetChanged(text)
  \/ \E text \in {"Write", "Wait", "Add"} : AnimTypeChanged(text)
  \/ \E value \in PanelDurations : AnimDurationChanged(value)
  \/ \E text \in {"linear"} : AnimEasingChanged(text)
  \/ \E index \in Tabs : SwitchTab(index)
  \/ DeleteSelected
  \/ CopySelected
  \/ PasteClipboard
  \/ \E hex_color \in PickedColors : ColorPicked(hex_color)
  \/ \E text \in TypedNames : NameEdited(text)
  \/ \E value \in {24} : FontSizeChanged(value)
  \/ SceneClicked
  \/ \E text \in SceneNames : SceneNameEdited(text)
  \/ \E hex_color \in PickedColors : SceneBgColorPicked(hex_color)

Spec == Init /\ [][Next]_vars

\* The operations of a user who writes in the code editors.
NextSync ==
  \/ \E pos \in PlacePositions : Place(pos)
  \/ \E S \in SUBSET canvas : SetSelection(S)
  \/ \E id \in canvas, type \in AddTypes, duration \in AddDurations : AddAnimation(id, type, duration)
  \/ \E index \in Tabs : SwitchTab(index)
  \/ \E text \in UITexts \cup {IF widgets.tab = 1 THEN widgets.code_gl ELSE widgets.code_ce} :
       EditCode(text)
  \/ SyncTimeout
  \/ DeleteSelected

SpecSync == Init /\ [][NextSync]_vars

(***************************************************************************)
(* The scenes of the project, the export and the preview (SpecProject).    *)
(***************************************************************************)
MaxScenes == 4     \* scenes added to the project in one run, the first included

\* f"Scene{self._scene_counter}"
SceneName(count) ==
  CASE count = 1 -> "Scene1" [] count = 2 -> "Scene2" [] count = 3 -> "Scene3"
    [] OTHER -> "Scene4"

ItemsOf(w, idx) ==
  {w.scenes[idx].state.objects[i].item.id : i \in 1..Len(w.scenes[idx].state.objects)}

\* _hide_scene_items: setVisible(False) takes a selected item out of the
\* selection, which emits selectionChanged.
_hide_scene_items(w, idx) ==
  IF idx < 1 \/ idx > Len(w.scenes) THEN w
  ELSE LET w1 == [w EXCEPT !.widgets.hidden = @ \cup ItemsOf(w, idx),
                           !.selected = @ \ ItemsOf(w, idx)]
       IN IF w1.selected # w.selected THEN Slot(_on_selection_changed(w1)) ELSE w1

_show_scene_items(w, idx) ==
  IF idx < 1 \/ idx > Len(w.scenes) THEN w
  ELSE [w EXCEPT !.widgets.hidden = @ \ ItemsOf(w, idx)]

\* _on_scene_selected(row); _show_scene_properties shows page 4, then
\* clearSelection emits selectionChanged when something was selected.
_on_scene_selected(w, row) ==
  IF row < 1 \/ row > Len(w.scenes) THEN w
  ELSE Bind(IF w.current_scene_idx # row THEN _hide_scene_items(w, w.current_scene_idx) ELSE w,
            LAMBDA w1 :
       Bind(_refresh_animations_list(
              _show_scene_items([w1 EXCEPT !.current_scene_idx = row], row)),
            LAMBDA w2 :
       Bind(_refresh_code_editors(w2),
            LAMBDA w3 :
         IF w3.exc # "" THEN w3
         ELSE IF w3.selected # {}
         THEN Slot(_on_selection_changed([w3 EXCEPT !.widgets.page = 4, !.selected = {}]))
         ELSE [w3 EXCEPT !.widgets.page = 4])))

\* scenesList.setCurrentRow(row): currentRowChanged when the row is new.
setCurrentRow(w, row) ==
  IF row = w.widgets.scene_row THEN w
  ELSE Slot(_on_scene_selected([w EXCEPT !.widgets.scene_row = row], row))

\* The loop of _on_add_scene over the old scene's objects: the arguments of
\* MathTexItem(...) read tracked.font_size.
RECURSIVE CloneObjects(_, _, _)
CloneObjects(w, new_idx, entries) ==
  IF entries = << >> \/ w.exc # "" THEN w
  ELSE IF Head(entries).tracked.font_size = NoAttr THEN [w EXCEPT !.exc = "AttributeError"]
  ELSE LET e == Head(entries)
           id == w.item_counter + 1
           cloned == add_animation(
                       register(w.scenes[new_idx].state, e.name, e.tracked,
                                Item(id, e.item.x, e.item.y)),
                       AnimationEntry(e.name, "Add", 0, ""))
       IN Bind([w EXCEPT !.item_counter = id, !.canvas = @ \cup {id},
                         !.scenes[new_idx].state = cloned],
               LAMBDA w1 : CloneObjects(w1, new_idx, Tail(entries)))

_on_add_scene(w) ==
  LET old_state == scene_state(w)
      new_idx == Len(w.scenes) + 1
      entry == [name |-> SceneName(w.scene_counter + 1),
                bg_color |-> w.scenes[w.current_scene_idx].bg_color,
                state |-> [SceneState EXCEPT !.name_counters = old_state.name_counters]]
  IN Bind(_hide_scene_items([w EXCEPT !.scene_counter = @ + 1], w.current_scene_idx),
          LAMBDA w1 :
     Bind(CloneObjects([w1 EXCEPT !.scenes = Append(@, entry)], new_idx, old_state.objects),
          LAMBDA w2 :
       IF w2.exc # "" THEN w2 ELSE setCurrentRow(w2, new_idx)))

AddScene ==
  /\ scene_counter < MaxScenes
  /\ Commit(_on_add_scene(World), "_on_add_scene")

\* A click on another row of scenesList.
SelectScene(row) ==
  /\ row \in 1..Len(scenes)
  /\ row # widgets.scene_row
  /\ Commit(_on_scene_selected([World EXCEPT !.widgets.scene_row = row], row),
            "_on_scene_selected")

\* canvas_scene.removeItem for each item of the deleted scene.
RECURSIVE RemoveItems(_, _)
RemoveItems(w, ids) ==
  IF ids = {} THEN w
  ELSE Bind(removeItem(w, CHOOSE i \in ids : TRUE),
            LAMBDA w1 : RemoveItems(w1, ids \ {CHOOSE i \in ids : TRUE}))

\* The sequence without its element at index.
Pop(seq, index) == [i \in 1..(Len(seq) - 1) |-> IF i < index THEN seq[i] ELSE seq[i + 1]]

\* _on_delete_scene.  scenesList.takeItem(idx) removes the current row and
\* the toolkit makes a neighbour current: in single selection mode the view
\* takes the row below, or the row above when there is none below; in the
\* other modes the selection model takes the row above, or the row below when
\* there is none above (the mode is set in main_window.ui).  currentRowChanged
\* carries that row's number before the removal; _scenes is already one
\* shorter then.
_on_delete_scene(w, single) ==
  LET idx == w.widgets.scene_row
      n == Len(w.scenes)
      below == IF single THEN idx < n ELSE idx = 1
      emitted == IF below THEN idx + 1 ELSE idx - 1
      after == IF below THEN idx ELSE idx - 1
  IN IF Len(w.scenes) <= 1 \/ idx = NoIndex THEN w
     ELSE Bind(RemoveItems(w, ItemsOf(w, idx)), LAMBDA w1 :
          Bind(Slot(_on_scene_selected([w1 EXCEPT !.scenes = Pop(@, idx), !.widgets.scene_row = after,
                                                  !.widgets.hidden = @ \ ItemsOf(w, idx)], emitted)),
               LAMBDA w2 : setCurrentRow(w2, IF idx < Len(w2.scenes) THEN idx ELSE Len(w2.scenes))))

DeleteScene == \E single \in BOOLEAN : Commit(_on_delete_scene(World, single), "_on_delete_scene")

\* list.pop(old_idx) followed by list.insert(new_idx, ...).
PopInsert(seq, old_idx, new_idx) ==
  [i \in 1..Len(seq) |->
     IF i = new_idx THEN seq[old_idx]
     ELSE IF i < new_idx THEN Pop(seq, old_idx)[i] ELSE Pop(seq, old_idx)[i - 1]]

\* The index an index designates after the move of old_idx to new_idx.
Moved(index, old_idx, new_idx) ==
  IF index = old_idx THEN new_idx
  ELSE IF old_idx < index /\ index <= new_idx THEN index - 1
  ELSE IF new_idx <= index /\ index < old_idx THEN index + 1
  ELSE index

\* _on_scene_rows_moved(start, dest_row): the row dragged and the row before
\* which it was dropped; the list's current row follows its item.
_on_scene_rows_moved(w, start, dest_row) ==
  LET old_idx == start
      new_idx == IF dest_row < start THEN dest_row ELSE dest_row - 1
  IN _refresh_code_editors(
       [w EXCEPT !.scenes = PopInsert(@, old_idx, new_idx),
                 !.current_scene_idx = Moved(@, old_idx, new_idx),
                 !.widgets.scene_row = Moved(@, old_idx, new_idx)])

SceneRowsMoved(start, dest_row) ==
  /\ start \in 1..Len(scenes)
  /\ dest_row \in 1..(Len(scenes) + 1)
  /\ dest_row \notin {start, start + 1}
  /\ Commit(_on_scene_rows_moved(World, start, dest_row), "_on_scene_rows_moved")


\* _on_anim_rows_moved(start, dest_row): the list widget has moved the row
\* and its current row with it; SceneState has no move_animation_to, so the
\* call raises before the model is touched.
_on_anim_rows_moved(w, start, dest_row) ==
  LET old_idx == start
      new_idx == IF dest_row < start THEN dest_row ELSE dest_row - 1
  IN [w EXCEPT !.widgets.anim_row = IF @ = NoIndex THEN @ ELSE Moved(@, old_idx, new_idx),
               !.exc = "AttributeError"]

AnimRowsMoved(start, dest_row) ==
  /\ start \in 1..Len(scene_state(World).animations)
  /\ dest_row \in 1..(Len(scene_state(World).animations) + 1)
  /\ dest_row \notin {start, start + 1}
  /\ Commit(_on_anim_rows_moved(World, start, dest_row), "_on_anim_rows_moved")

\* _export_py with a path chosen in the dialog.
_export_py(w) ==
  IF w.sync.code_gl_manual THEN [w EXCEPT !.files.export = File(w.widgets.code_gl)]
  ELSE Bind(_generate_all_gl_code(w), LAMBDA code :
         IF code.exc # "" THEN [w EXCEPT !.exc = code.exc]
         ELSE [w EXCEPT !.files.export = File(code.lines)])

ExportPy == Commit(_export_py(World), "_export_py")

ClearLine == Line("other", "self.clear()", "", "", << >>, NoNum, NoNum)
FrameLine == Line("other", "self.add(Rectangle(...))", "", "", << >>, NoNum, NoNum)

generate_replay_code(ss, bg_color) ==
  Bind(_generate_body(ss, FALSE, FALSE), LAMBDA body :
    IF body.exc # "" THEN body
    ELSE Returned(<< ClearLine,
                     IF bg_color # "" /\ Upper(bg_color) # "#000000"
                     THEN BgGlLine(bg_color) ELSE BgGlLine("#000000"),
                     FrameLine >> \o body.lines))

\* _replay_preview, reached from _preview_scene while the preview runs:
\* generate_replay_code is called without a background colour.
_replay_preview(w) ==
  Bind(generate_replay_code(scene_state(w), "#000000"), LAMBDA replay :
    IF replay.exc # "" THEN [w EXCEPT !.exc = replay.exc]
    ELSE [w EXCEPT !.files.replay = File(replay.lines)])

ReplayPreview == Commit(_replay_preview(World), "_replay_preview")

\* The text the user types into the ManimGL editor of a project of one scene.
HandTextsGL == {<< ClassLine("Scene1"), WaitLine(Num(125, 2)) >>}

\* Texts the user types into a code editor of a project of several scenes.
ProjectTexts ==
  {<< ClassLine("Scene2"), BgGlLine("#00ff00"), WaitLine(NoNum),
      ClassLine("Scene1"), BgGlLine("#FF0000"), WaitLine(Num(125, 2)) >>,
   << ClassLine("Other"), BgGlLine("#FF0000"), AddLine("ghost") >>}

\* self._scenes[self._current_scene_idx] exists.
ValidIndex == current_scene_idx \in 1..Len(scenes)

\* One of them called while the index designates no scene.
ReadCurrentScene(op) ==
  /\ ~ValidIndex
  /\ Commit([World EXCEPT !.exc = "IndexError"], op)

\* The operations of a user who adds, deletes, selects and reorders scenes
\* and writes in the ManimGL editor.
NextScenes ==
  \/ ValidIndex /\ \E S \in SUBSET canvas : SetSelection(S)
  \/ ValidIndex /\ DeleteSelected
  \/ ValidIndex /\ scene_counter < MaxScenes - 1 /\ AddScene
  \/ \E op \in {"_delete_selected", "_on_add_scene"} : ReadCurrentScene(op)
  \/ DeleteScene
  \/ \E row \in 1..MaxScenes : SelectScene(row)
  \/ \E start \in 1..MaxScenes, dest_row \in 1..(MaxScenes + 1) : SceneRowsMoved(start, dest_row)
  \/ \E index \in {0, 1} : SwitchTab(index)
  \/ \E text \in ProjectTexts : EditCode(text)
  \/ SyncTimeout

SpecScenes == Init /\ [][NextScenes]_vars

\* The operations of the scene list alone.
NextSceneList ==
  \/ ValidIndex /\ AddScene
  \/ ReadCurrentScene("_on_add_scene")
  \/ DeleteScene
  \/ \E row \in 1..MaxScenes : SelectScene(row)
  \/ \E start \in 1..MaxScenes, dest_row \in 1..(MaxScenes + 1) : SceneRowsMoved(start, dest_row)

SpecSceneList == Init /\ [][NextSceneList]_vars

\* The operations of a user who works on one scene, writes in the ManimGL
\* editor, exports the script and reloads the preview.
NextProject ==
  \/ \E pos \in PlacePositions : Place(pos)
  \/ \E S \in SUBSET canvas : SetSelection(S)
  \/ DeleteSelected
  \/ \E start \in 1..MaxSteps, dest_row \in 1..(MaxSteps + 1) : AnimRowsMoved(start, dest_row)
  \/ \E hex_color \in PickedColors : SceneBgColorPicked(hex_color)
  \/ \E index \in {0, 1} : SwitchTab(index)
  \/ \E text \in HandTextsGL : EditCode(text)
  \/ SyncTimeout
  \/ ExportPy
  \/ ReplayPreview

SpecProject == Init /\ [][NextProject]_vars


(***************************************************************************)
(* Round trips and parser robustness (SpecRT).                             *)
(***************************************************************************)
RoundTripDone == rt.kind = "scene" /\ rt.stage = "parsed"

EasingOrDefault(easing) == IF easing = "" THEN "smooth" ELSE easing

\* C1: for every scene and both dialects, parsing the generated text yields
\* one scene with the same scene name, the same object names in the same
\* order, equal content for every object, equal colour up to hex case and
\* equal background colour.
C1_ObjectsRoundTrip ==
  RoundTripDone =>
    /\ rt.parsed.status = "ok"
    /\ Len(rt.parsed.scenes) = 1
    /\ LET P == rt.parsed.scenes[1]
           objects == rt.scene.state.objects
       IN /\ P.name = rt.scene.name
          /\ P.bg_color = rt.scene.bg_color
          /\ Len(P.objects) = Len(objects)
          /\ \A i \in 1..Len(objects) :
                i <= Len(P.objects) =>
                  /\ P.objects[i].name = objects[i].name
                  /\ P.objects[i].latex = objects[i].tracked.latex
                  /\ Upper(P.objects[i].color) = Upper(objects[i].tracked.color)

\* C2: for every scene (also one with objects and an empty step list) and
\* both dialects, the parsed step list has the length of the scene's step
\* list and, position by position, the same target, the same canonical kind,
\* a duration within 0.05s and the same easing (omitted easing = "smooth").
C2_StepsRoundTrip ==
  RoundTripDone =>
    /\ rt.parsed.status = "ok"
    /\ Len(rt.parsed.scenes) = 1
    /\ LET parsed == rt.parsed.scenes[1].animations
           animations == rt.scene.state.animations
       IN /\ Len(parsed) = Len(animations)
          /\ \A i \in 1..Len(animations) :
                i <= Len(parsed) =>
                  /\ parsed[i].target_name = animations[i].target_name
                  /\ parsed[i].anim_type = animations[i].anim_type
                  /\ Abs(parsed[i].duration - animations[i].duration) <= 5
                  /\ EasingOrDefault(parsed[i].easing) = EasingOrDefault(animations[i].easing)

\* C5: parse_code raises for no input text: a directive whose numeric
\* argument is not a valid number is skipped and parsing goes on.
C5_ParseNeverRaises ==
  rt.stage = "parsed" => rt.parsed.status \in {"ok", "None"}

(***************************************************************************)
(* Reconciliation (SpecSync).                                              *)
(***************************************************************************)
VisibleCode == IF widgets.tab = 1 THEN widgets.code_gl ELSE widgets.code_ce

\* The step in which the timer's timeout runs _apply_code_to_canvas.
Reconciles == sync.timer /\ ~sync'.timer /\ widgets.tab \in {1, 2}

\* The visible editor holds the text generated now from the scenes.
FreshText ==
  LET code == GenerateAll(scenes, 1, IF widgets.tab = 1 THEN "gl" ELSE "ce")
  IN code.exc = "" /\ VisibleCode = code.lines

NoClass(code) == \A i \in 1..Len(code) : code[i].k # "class"

\* C3: reconciling the live scene with the parse of its own freshly
\* generated text changes nothing: objects, their fields, the step list,
\* the background and the scene name are the same before and after.
C3_IdempotentReconcile ==
  [][(Reconciles /\ FreshText) => (scenes' = scenes /\ canvas' = canvas)]_vars

\* C4: a text without a class declaration parses to None, and a
\* reconciliation on it changes no object, step, background or scene name.
C4_NoSceneNoChange ==
  [][(Reconciles /\ NoClass(VisibleCode)) =>
       /\ parse_code(VisibleCode).status = "None"
       /\ scenes' = scenes /\ canvas' = canvas /\ selected' = selected
       /\ item_counter' = item_counter]_vars

C4_Witness ==
  /\ last.op = "_apply_code_to_canvas"
  /\ widgets.tab \in {1, 2} /\ NoClass(VisibleCode)
  /\ scenes[1].state.objects # << >>
  /\ scenes[1].state.animations # << >>

\* C6: every step whose kind is not Wait targets the name of a live object
\* of its scene.
C6_ReferenceIntegrity ==
  \A h \in 1..Len(scenes) :
    \A i \in 1..Len(scenes[h].state.animations) :
      scenes[h].state.animations[i].anim_type # "Wait" =>
        scenes[h].state.animations[i].target_name \in NameSet(scenes[h].state)

\* C10: after reconciling with a parsed scene P the live object names are
\* the names P declares, each name of both keeping its canvas item and
\* having P's content and colour.
C10_ReconcileToParsed ==
  [][(Reconciles /\ parse_code(VisibleCode).status = "ok"
        /\ MatchingScene(World, parse_code(VisibleCode).scenes) # NoIndex) =>
       LET parsed == parse_code(VisibleCode).scenes[
                       MatchingScene(World, parse_code(VisibleCode).scenes)]
           before == scenes[current_scene_idx].state
           after == scenes'[current_scene_idx].state
       IN /\ NameSet(after) = {parsed.objects[i].name : i \in 1..Len(parsed.objects)}
          /\ \A i \in 1..Len(parsed.objects) :
               LET name == parsed.objects[i].name
                   a == IndexOf(after, name)
                   b == IndexOf(before, name)
               IN a # NoIndex =>
                    /\ after.objects[a].tracked.latex = parsed.objects[i].latex
                    /\ Upper(after.objects[a].tracked.color) = Upper(parsed.objects[i].color)
                    /\ after.objects[a].tracked.font_size = parsed.objects[i].font_size
                    /\ b # NoIndex => after.objects[a].item.id = before.objects[b].item.id]_vars

(***************************************************************************)
(* Objects, names and steps (Spec).                                        *)
(***************************************************************************)
Live == scenes[current_scene_idx].state

LiveAfter == scenes'[current_scene_idx].state

\* C7: renaming the object the object page shows from old to new (new not
\* empty and not in use) retargets every step of old to new, removes and
\* reorders no step, keeps the object's content, colour, size and canvas
\* item, and leaves no step targeting old.
C7_RenameRetargets ==
  [][\A new \in TypedNames :
       (NameEdited(new) /\ props.current_name # None /\ new # ""
          /\ new \notin NameSet(Live)) =>
         LET old == props.current_name
             i == IndexOf(Live, old)
             j == IndexOf(LiveAfter, new)
         IN /\ j # NoIndex
            /\ old \notin NameSet(LiveAfter)
            /\ LiveAfter.objects[j].tracked = [Live.objects[i].tracked EXCEPT !.name = new]
            /\ LiveAfter.objects[j].item = Live.objects[i].item
            /\ Len(LiveAfter.animations) = Len(Live.animations)
            /\ \A h \in 1..Len(Live.animations) :
                 LiveAfter.animations[h] =
                   IF Live.animations[h].target_name = old
                   THEN [Live.animations[h] EXCEPT !.target_name = new]
                   ELSE Live.animations[h]]_vars

\* C8: deleting the selected objects removes them and exactly the steps
\* that target them; the other steps keep their order and the other
\* objects are unchanged.
C8_DeleteExactly ==
  [][DeleteSelected =>
       LET gone == {find_name_for_item(Live, id) : id \in selected}
       IN /\ LiveAfter.objects = SelectSeq(Live.objects, LAMBDA e : e.name \notin gone)
          /\ LiveAfter.animations =
               SelectSeq(Live.animations, LAMBDA a : a.target_name \notin gone)
          /\ LiveAfter.name_counters = Live.name_counters]_vars

C8_Witness ==
  /\ last.op = "_delete_selected"
  /\ Len(Live.objects) = 1 /\ Live.name_counters = 2
  /\ Len(Live.animations) = 1
  /\ Live.animations[1].target_name = Live.objects[1].name

C11_StepsReplaced ==
  [][(Reconciles /\ parse_code(VisibleCode).status = "ok"
        /\ MatchingScene(World, parse_code(VisibleCode).scenes) # NoIndex) =>
       LET parsed == parse_code(VisibleCode).scenes[
                       MatchingScene(World, parse_code(VisibleCode).scenes)]
           after == scenes'[current_scene_idx].state.animations
       IN /\ Len(after) = Len(parsed.animations)
          /\ \A i \in 1..Len(after) :
               after[i] = AnimationEntry(parsed.animations[i].target_name,
                                         parsed.animations[i].anim_type,
                                         parsed.animations[i].duration,
                                         parsed.animations[i].easing)]_vars

(***************************************************************************)
(* Numbers, kinds and defaults through the generator and the parser        *)
(* (SpecRT).                                                               *)
(***************************************************************************)
\* C12: for every object the position parsed from the generated text, taken
\* back to canvas coordinates (x100, Y flipped), is within 0.5 canvas units
\* of the item's position on each axis.
C12_PositionRoundTrip ==
  (RoundTripDone /\ rt.parsed.status = "ok") =>
    LET P == rt.parsed.scenes[1]
        objects == rt.scene.state.objects
    IN \A i \in 1..Len(objects) :
         LET j == PosOf(P.objects, objects[i].name)
         IN j # NoIndex =>
              /\ Abs(objects[i].item.x - P.objects[j].pos_x * 10) <= 5
              /\ Abs(objects[i].item.y - (0 - P.objects[j].pos_y) * 10) <= 5

\* C13: for every object that has a font size, the font size parsed from the
\* generated text is the object's font size.
C13_FontSizeRoundTrip ==
  (RoundTripDone /\ rt.parsed.status = "ok") =>
    LET P == rt.parsed.scenes[1]
        objects == rt.scene.state.objects
    IN \A i \in 1..Len(objects) :
         LET j == PosOf(P.objects, objects[i].name)
         IN j # NoIndex => P.objects[j].font_size = objects[i].tracked.font_size

\* C14: a step list generated in either dialect parses back to the same
\* kinds, step for step (ShowCreation is written Create in the CE dialect
\* and read back as ShowCreation, every other kind is written and read
\* unchanged), and no parsed step of any text has the CE name Create.
C14_DialectSymmetry ==
  /\ (RoundTripDone /\ rt.parsed.status = "ok") =>
       LET P == rt.parsed.scenes[1]
           animations == rt.scene.state.animations
       IN Len(P.animations) = Len(animations) =>
            \A i \in 1..Len(animations) :
              /\ P.animations[i].anim_type = animations[i].anim_type
              /\ \E h \in 1..Len(rt.code.lines) :
                   LET line == rt.code.lines[h]
                   IN animations[i].anim_type \notin {"Add", "Wait"} =>
                        /\ line.k = "play"
                        /\ line.c = IF rt.dialect = "ce" /\ animations[i].anim_type = "ShowCreation"
                                    THEN "Create" ELSE animations[i].anim_type
  /\ (rt.stage = "parsed" /\ rt.parsed.status = "ok") =>
       \A h \in 1..Len(rt.parsed.scenes) :
         \A i \in 1..Len(rt.parsed.scenes[h].animations) :
           rt.parsed.scenes[h].animations[i].anim_type # "Create"

C14_Witness ==
  /\ RoundTripDone /\ rt.dialect = "ce" /\ rt.parsed.status = "ok"
  /\ Len(rt.scene.state.animations) = 2
  /\ rt.scene.state.animations[1].anim_type = "ShowCreation"
  /\ rt.scene.state.animations[2].anim_type = "Write"
  /\ \E h \in 1..Len(rt.code.lines) : rt.code.lines[h].k = "play" /\ rt.code.lines[h].c = "Create"
  /\ rt.parsed.scenes[1].animations[1].anim_type = "ShowCreation"

\* C15: the generator returns a text in which an object has a colour line
\* iff its colour is not white (whatever the case of the hex digits), a
\* scale line iff its font size is not 48 and a position line iff it is more
\* than 0.01 target units from the origin on some axis; the line of a Wait
\* step carries a duration iff the duration is not 1.0, the line of a play
\* step carries run_time iff the duration is not 1.0 and rate_func iff the
\* easing is not "smooth".  So the body for one all-default object (as
\* placed on the canvas, or with font size 48) and its default Write step is
\* the declaration line followed by a bare play line.
C15_DefaultSuppression ==
  (rt.kind = "scene" /\ rt.stage = "generated") =>
    LET lines == rt.code.lines
        objects == rt.scene.state.objects
        animations == rt.scene.state.animations
        Has(k, name) == \E h \in 1..Len(lines) : lines[h].k = k /\ lines[h].n = name
        StepLine(i) == lines[Len(lines) - Len(animations) + i]
    IN /\ rt.code.exc = ""
       /\ \A i \in 1..Len(objects) :
            /\ Has("color", objects[i].name) <=> Upper(objects[i].tracked.color) # "#FFFFFF"
            /\ Has("scale", objects[i].name) <=> objects[i].tracked.font_size # 48
            /\ Has("move", objects[i].name) <=>
                 (Abs(objects[i].item.x) > 10 \/ Abs(objects[i].item.y) > 10)
       /\ \A i \in 1..Len(animations) :
            /\ animations[i].anim_type = "Wait" =>
                 /\ StepLine(i).k = "wait"
                 /\ StepLine(i).x.st = "num" <=> animations[i].duration # 100
            /\ animations[i].anim_type \notin {"Wait", "Add"} =>
                 /\ StepLine(i).k = "play"
                 /\ StepLine(i).x.st = "num" <=> animations[i].duration # 100
                 /\ StepLine(i).r # "" <=> animations[i].easing # "smooth"
       /\ (/\ Len(objects) = 1 /\ Len(animations) = 1
           /\ Upper(objects[1].tracked.color) = "#FFFFFF"
           /\ objects[1].tracked.font_size \in {48, NoAttr}
           /\ objects[1].item.x = 0 /\ objects[1].item.y = 0
           /\ animations[1] = AnimationEntry(objects[1].name, "Write", 100, "smooth")) =>
            /\ Len(lines) >= 3
            /\ lines[Len(lines) - 2].k \in {"other", "bg_gl", "bg_ce"}
            /\ lines[Len(lines) - 1].k = "obj" /\ lines[Len(lines) - 1].n = objects[1].name
            /\ lines[Len(lines)] = PlayLine("Write", objects[1].name, NoNum, "")

\* C16: for every scene, also one whose objects were placed without a font
\* size and the scene with no object and no step, both generators return a
\* text: the class line of the scene's name, the construct line and a body
\* of at least one line, the body being the one line pass when the scene has
\* no object and no step.
C16_GeneratorTotal ==
  (rt.kind = "scene" /\ rt.stage = "generated") =>
    LET lines == rt.code.lines
        state == rt.scene.state
        body == IF Upper(rt.scene.bg_color) # "#000000" THEN 8 ELSE 6
    IN /\ rt.code.exc = ""
       /\ Len(lines) >= body
       /\ lines[4] = ClassLine(rt.scene.name)
       /\ lines[5] = OtherLine
       /\ (state.objects = << >> /\ state.animations = << >>) =>
            (Len(lines) = body /\ lines[body] = OtherLine)

(***************************************************************************)
(* The parser on hand-written texts (SpecRT).                              *)
(***************************************************************************)
TextParsed == rt.kind = "text" /\ rt.stage = "parsed"

\* C17: the parse of a text is the parse of the text without its directives
\* that name an object no earlier line of the block declares: such a
\* directive creates no object, changes no field, adds no step and does not
\* stop the parse.
C17_DanglingDropped ==
  LET code == rt.code.lines
      \* the lines before line j that belong to the block of line j
      BlockBefore(j) == {i \in 1..(j - 1) : \A h \in i..(j - 1) : code[h].k # "class"}
      Dangling(j) ==
        /\ code[j].k \in {"color", "scale", "move", "add", "play"}
        /\ code[j].t = << >>
        /\ ~\E i \in BlockBefore(j) :
              /\ code[i].k \notin {"comment", "bg_ce", "bg_gl"}
              /\ Search(code[i], "obj") # NoIndex
              /\ Piece(code[i], "obj").n = code[j].n
      WithoutDangling == [j \in 1..Len(code) |-> IF Dangling(j) THEN OtherLine ELSE code[j]]
  IN TextParsed => rt.parsed = parse_code(WithoutDangling)

\* The text in which every line holds nothing but the text of the first
\* pattern matching it, the patterns taken in the order background (either
\* dialect), construction, colour, scale, position, add, wait, play; a
\* comment line and a line that no pattern matches become a line without
\* effect.  A class declaration stays.
Reduced(code) ==
  LET PatternOrder == << "bg", "obj", "color", "scale", "move", "add", "wait", "play" >>
      Rank(p) ==
        LET k == IF p.k \in {"bg_ce", "bg_gl"} THEN "bg" ELSE p.k
        IN IF (\E h \in 1..Len(PatternOrder) : PatternOrder[h] = k)
              /\ (p.k = "obj" => ObjMatches(p.s))
           THEN CHOOSE h \in 1..Len(PatternOrder) : PatternOrder[h] = k
           ELSE NoIndex
      FirstEffect(line) ==
        LET pieces == << [line EXCEPT !.t = << >>] >> \o line.t
            hits == {h \in 1..Len(pieces) : Rank(pieces[h]) # NoIndex}
            best == CHOOSE h \in hits : \A g \in hits :
                      \/ Rank(pieces[h]) < Rank(pieces[g])
                      \/ Rank(pieces[h]) = Rank(pieces[g]) /\ h <= g
        IN IF line.k = "class" THEN line
           ELSE IF line.k = "comment" \/ hits = {} THEN OtherLine
           ELSE pieces[best]
  IN [j \in 1..Len(code) |-> FirstEffect(code[j])]

RECURSIVE FirstDeclared(_, _)
FirstDeclared(seen, lines) ==
  IF lines = << >> THEN seen
  ELSE FirstDeclared(
         IF Head(lines).k = "obj" /\ ~\E i \in 1..Len(seen) : seen[i] = Head(lines).n
         THEN Append(seen, Head(lines).n) ELSE seen,
         Tail(lines))

\* C19: a text with n >= 1 class declarations parses to n scenes in textual
\* order; each scene is the parse of its own block alone, lists the objects
\* in the order of their first declaration and the steps in the order of
\* their statements, and keeps the last background directive of the block.
C19_ScenesPerMarker ==
  LET code == rt.code.lines
      \* the indices of the class declarations, in textual order
      Marks == SelectSeq([i \in 1..Len(code) |-> i], LAMBDA i : code[i].k = "class")
      n == Len(Marks)
      \* the text from the h-th class declaration up to the next one or the end
      BlockText(h) == SubSeq(code, Marks[h], IF h < n THEN Marks[h + 1] - 1 ELSE Len(code))
      StepKind(line) == IF line.k = "add" THEN "Add"
                        ELSE IF line.k = "wait" THEN "Wait" ELSE _CE_TO_GL_ANIM(line.c)
  IN (TextParsed /\ n >= 1) =>
       /\ rt.parsed.status = "ok"
       /\ Len(rt.parsed.scenes) = n
       /\ \A h \in 1..n :
            LET scene == rt.parsed.scenes[h]
                block == Reduced(Tail(BlockText(h)))
                stmts == SelectSeq(block, LAMBDA l : l.k \in {"add", "wait", "play"})
                bgs == SelectSeq(block, LAMBDA l : l.k \in {"bg_ce", "bg_gl"})
            IN /\ scene.name = code[Marks[h]].n
               /\ parse_code(BlockText(h)) = [status |-> "ok", scenes |-> << scene >>]
               /\ [i \in 1..Len(scene.objects) |-> scene.objects[i].name]
                    = FirstDeclared(<< >>, block)
               /\ [i \in 1..Len(scene.animations) |-> scene.animations[i].anim_type]
                    = [i \in 1..Len(stmts) |-> StepKind(stmts[i])]
               /\ scene.bg_color = IF bgs = << >> THEN "#000000" ELSE bgs[Len(bgs)].c

(***************************************************************************)
(* The debounce timer of the code editors (SpecSync).                      *)
(***************************************************************************)
\* C20: every hand edit of a code editor leaves the single-shot timer pending
\* for that editor, and when the timer fires one parse and reconciliation
\* runs on the text of the editor that was edited, whatever tab is selected
\* by then.
C20_DebouncedReparse ==
  [][LET \* the user changes the text of the visible code editor
         HandEdit == last'.op = "_on_code_edited" /\ VisibleCode' # VisibleCode
         \* the pending timer fires
         TimerFires == sync.timer /\ ~sync'.timer
         \* what _apply_code_to_canvas makes of the editor whose edit started the timer
         ParseOfEdited ==
           _apply_code_to_canvas([World EXCEPT !.widgets.tab = sync.edited,
                                               !.sync.timer = FALSE, !.sync.edited = 0])
     IN /\ HandEdit => (sync'.timer /\ sync'.edited = widgets.tab)
        /\ TimerFires => (scenes' = ParseOfEdited.scenes /\ canvas' = ParseOfEdited.canvas)
    ]_vars

(***************************************************************************)
(* The scene a reconciliation takes, and the scenes it leaves alone.       *)
(***************************************************************************)
\* C21: a reconciliation takes the parsed scene that bears the current
\* scene's name, else the parsed scene at the current scene's index, and
\* changes no scene when there is neither; afterwards the current scene has
\* the parsed scene's name and its background colour, up to the case of the
\* hex digits.
C21_MatchingScene ==
  [][(Reconciles /\ ValidIndex /\ parse_code(VisibleCode).status = "ok") =>
       LET parsed == parse_code(VisibleCode).scenes
           idx == current_scene_idx
           named == {h \in 1..Len(parsed) : parsed[h].name = scenes[idx].name}
           pick == IF named # {} THEN CHOOSE h \in named : \A g \in named : h <= g
                   ELSE IF idx <= Len(parsed) THEN idx ELSE NoIndex
       IN IF pick = NoIndex THEN scenes' = scenes
          ELSE /\ scenes'[idx].name = parsed[pick].name
               /\ Upper(scenes'[idx].bg_color) = Upper(parsed[pick].bg_color)
    ]_vars

(***************************************************************************)
(* The files written (SpecProject).                                        *)
(***************************************************************************)
\* C22: an export writes the ManimGL generation of all the scenes as they
\* are when the export runs, also after the user has edited the code by hand
\* and then changed the canvas.
C22_ExportIsGenerated ==
  [][(last'.op = "_export_py" /\ (last' # last \/ files' # files)) =>
       /\ _generate_all_gl_code(World).exc = ""
       /\ files'.export = File(_generate_all_gl_code(World).lines)
    ]_vars

(***************************************************************************)
(* From the canvas to the code (SpecSync).                                 *)
(***************************************************************************)
\* C23: after a user action that changes the scene model while a code tab is
\* shown, and after a switch to a code tab, the visible editor holds the
\* generation of the live scenes in its dialect, also after an earlier hand
\* edit.
C23_EditorIsGenerated ==
  [][LET shown == widgets'.tab
         code == GenerateAll(scenes', 1, IF shown = 1 THEN "gl" ELSE "ce")
     IN (/\ shown \in {1, 2}
         /\ last'.op \notin {"_apply_code_to_canvas", "_on_code_edited"}
         /\ scenes' # scenes \/ shown # widgets.tab) =>
          /\ code.exc = ""
          /\ VisibleCode' = code.lines
    ]_vars

\* C24: the replay fragment written on hot-reload is the clear directive, one
\* background directive with the colour of the scene (black by default), then
\* the body of the ManimGL script of that scene (the frame of the preview
\* window apart), with no import and no class wrapper.
C24_ReplayFragment ==
  [][(last'.op = "_replay_preview" /\ (last' # last \/ files' # files)) =>
       LET scene == scenes[current_scene_idx]
           body == _generate_body(scene.state, FALSE, FALSE)
           bg == BgGlLine(IF scene.bg_color = "" THEN "#000000" ELSE scene.bg_color)
       IN /\ body.exc = ""
          /\ files'.replay \in {File(<< ClearLine, bg >> \o body.lines),
                                File(<< ClearLine, bg, FrameLine >> \o body.lines)}
    ]_vars

(***************************************************************************)
(* The order of the steps and of the scenes.                               *)
(***************************************************************************)
\* C25: a drag of a row of the animation list moves that step in the scene
\* model to the row's new place, the other steps keeping their order and
\* none added or lost.
C25_AnimRowsMoved ==
  [][(last'.op = "_on_anim_rows_moved" /\ last' # last) =>
       LET before == scenes[current_scene_idx].state.animations
           after == scenes'[current_scene_idx].state.animations
       IN /\ last'.exc = ""
          /\ \E i, j \in 1..Len(before) : i # j /\ after = PopInsert(before, i, j)
    ]_vars

\* C26: a reconciliation of the code into the canvas changes the current
\* scene only: every other scene keeps its objects, steps, background and
\* name, also when the text holds a differing block for it.
C26_OtherScenesKept ==
  [][Reconciles =>
       /\ Len(scenes') = Len(scenes)
       /\ \A i \in 1..Len(scenes) : i # current_scene_idx => scenes'[i] = scenes[i]
    ]_vars

\* A reconciliation has given the current scene the background of its block
\* while the text holds a block with another background for another scene.
C26_Witness ==
  /\ last.op = "_apply_code_to_canvas" /\ last.exc = ""
  /\ ValidIndex
  /\ LET parsed == parse_code(VisibleCode)
     IN /\ parsed.status = "ok"
        /\ \E g \in 1..Len(parsed.scenes) :
             /\ parsed.scenes[g].name = scenes[current_scene_idx].name
             /\ parsed.scenes[g].bg_color = scenes[current_scene_idx].bg_color
             /\ parsed.scenes[g].bg_color # "#000000"
        /\ \E i \in 1..Len(scenes), h \in 1..Len(parsed.scenes) :
             /\ i # current_scene_idx
             /\ parsed.scenes[h].name = scenes[i].name
             /\ parsed.scenes[h].bg_color # scenes[i].bg_color

(***************************************************************************)
(* No feedback from the generated text to the timer (SpecSync).            *)
(***************************************************************************)
\* C27: only a hand edit marks an editor as manually edited or starts the
\* sync timer: a step that rewrites the editor from the program (a refresh
\* after a canvas edit or a tab switch) or reconciles leaves the manual flags
\* as they are and starts no timer.
C27_NoFeedback ==
  [][last'.op # "_on_code_edited" =>
       /\ sync'.code_gl_manual = sync.code_gl_manual
       /\ sync'.code_ce_manual = sync.code_ce_manual
       /\ sync'.timer => sync.timer
    ]_vars

\* A refresh has just written the generation into the visible editor, no
\* timer runs and no editor is marked.
C27_Witness ==
  /\ last.op = "_on_center_tab_changed" /\ last.exc = ""
  /\ widgets.tab \in {1, 2}
  /\ VisibleCode # << >>
  /\ VisibleCode = GenerateAll(scenes, 1, IF widgets.tab = 1 THEN "gl" ELSE "ce").lines
  /\ ~sync.timer /\ ~sync.code_gl_manual /\ ~sync.code_ce_manual /\ ~sync.updating_code

\* C28: the project always holds at least one scene and the current-scene
\* index designates one of them, after any add, delete, select or reorder of
\* scenes.
C28_CurrentSceneValid ==
  /\ Len(scenes) >= 1
  /\ current_scene_idx \in 1..Len(scenes)

\* C29: a drag of a row of the scene list permutes the scenes, none added,
\* dropped or altered, and the current-scene index designates afterwards the
\* scene that was current before, whether that scene was the one moved, was
\* before it or was after it.
C29_SceneRowsMoved ==
  [][(last'.op = "_on_scene_rows_moved" /\ scenes' # scenes) =>
       /\ ValidIndex
       /\ Len(scenes') = Len(scenes)
       /\ \A k \in 1..Len(scenes) :
            Cardinality({h \in 1..Len(scenes) : scenes'[h] = scenes[k]})
              = Cardinality({h \in 1..Len(scenes) : scenes[h] = scenes[k]})
       /\ current_scene_idx' \in 1..Len(scenes')
       /\ scenes'[current_scene_idx'] = scenes[current_scene_idx]
    ]_vars

(***************************************************************************)
(* The step list of models/scene_state.py (SpecRT).                        *)
(***************************************************************************)
\* C30: move_animation(i, d) with i and i + d inside the list exchanges
\* exactly the steps at i and i + d, and with i + d outside the list leaves
\* it unchanged; remove_animation(i) removes exactly the step at i when i is
\* inside the list and leaves it unchanged otherwise; neither duplicates a
\* step, changes a step's fields or touches the objects.
C30_StepListMutations ==
  [][(rt.kind = "steps" /\ rt.stage = "input" /\ rt'.stage # "input") =>
       LET before == rt.scene.state.animations
           after == rt'.scene.state.animations
           n == Len(before)
           i == rt'.index
           j == rt'.index + rt'.delta
           Count(seq, a) == Cardinality({k \in 1..Len(seq) : seq[k] = a})
       IN /\ rt'.scene.state.objects = rt.scene.state.objects
          /\ \A k \in 1..Len(after) : Count(after, after[k]) <= Count(before, after[k])
          /\ rt'.stage = "move_animation" =>
               /\ Len(after) = n
               /\ (i \in 1..n /\ j \in 1..n) =>
                    /\ after[i] = before[j] /\ after[j] = before[i]
                    /\ \A k \in 1..n : k \notin {i, j} => after[k] = before[k]
               /\ j \notin 1..n => after = before
          /\ rt'.stage = "remove_animation" =>
               /\ i \in 1..n =>
                    /\ Len(after) = n - 1
                    /\ \A k \in 1..(n - 1) : after[k] = IF k < i THEN before[k] ELSE before[k + 1]
               /\ i \notin 1..n => after = before
    ]_vars

\* The first of three different steps has changed places with the third.
C30_Witness ==
  /\ rt.kind = "steps" /\ rt.stage = "move_animation"
  /\ rt.index = 1 /\ rt.delta = 2
  /\ Len(rt.scene.state.animations) = 3
  /\ rt.scene.state.animations[1].anim_type = "FadeOut"
  /\ rt.scene.state.animations[2].anim_type = "Wait"
  /\ rt.scene.state.animations[3].anim_type = "Write"

====
